---- MODULE Spec2Model ----
(***************************************************************************)
(* Model of the session-and-orchestration core of yuri-bot                 *)
(* (src/yuri-bot.py): the conversation store, the tool dispatcher, the     *)
(* streaming agent loop and the two event handlers that use them.          *)
(*                                                                         *)
(* The blocking loop chat_with_claude, the out-of-office handlers and the   *)
(* handlers of the older program src/app.py are modelled beside them.      *)
(*                                                                         *)
(* Seven specifications share the variables and the actions:                 *)
(*   Spec      two handler threads, several session keys, a clock;         *)
(*   SpecTime  one handler thread, several session keys, a clock;          *)
(*   SpecSeq   one handler thread, one session key, enough events for      *)
(*             trim_history to cut;                                        *)
(*   SpecRace  two handler threads, several session keys, no clock;        *)
(*   SpecLoop  one handler thread, either program, events of the           *)
(*             out-of-office channel and direct messages, no clock;        *)
(*   SpecStream one handler thread, direct messages, the fragments of the  *)
(*             stream, the host's wall clock and the time that passes;     *)
(*   SpecKey   two handler threads, two users, direct messages and         *)
(*             mentions in two channels, plain answers.                    *)
(***************************************************************************)
EXTENDS Integers, Sequences, FiniteSets, TLC

(***************************************************************************)
(* Program constants.                                                      *)
(***************************************************************************)
MAX_TURNS == 10
HISTORY_TTL_MINUTES == 30
OOO_CHANNEL_ID == "C0AF0CJL42F"

\* SLACK_UPDATE_INTERVAL = 1.5 seconds; the clocks count tenths of a second.
SLACK_UPDATE_INTERVAL == 15

(***************************************************************************)
(* Bounds of the model.                                                    *)
(***************************************************************************)
MaxEvents == 3
MaxToolIds == 1
MaxTimeEvents == 3
MaxTimeToolIds == 1
MaxSeqEvents == 12
MaxSeqToolIds == 2
MaxRaceEvents == 2
MaxRaceToolIds == 2
MaxLoopEvents == 2
MaxLoopToolIds == 2
MaxNow == 61
MaxStreamEvents == 2
MaxStreamToolIds == 1
MaxFragments == 2
MaxKeyEvents == 3

Handlers == {1, 2}
Users == {"U1", "U2"}
Channels == {"C1"}

\* The two programs of the repository: src/yuri-bot.py and the older
\* src/app.py.  A run is a run of one of them.
Programs == {"yuri-bot", "app"}

\* What time.time() returned when the program started: seconds since 1970, in
\* tenths, far above SLACK_UPDATE_INTERVAL.
Epoch == 1000

\* Minutes the clock may advance in one step: exactly the idle limit, or one
\* minute more.
TickSteps == {HISTORY_TTL_MINUTES, HISTORY_TTL_MINUTES + 1}

VARIABLES
    conversation_store, \* dict: session key -> [messages, last_activity]
    now,                \* datetime.now(), in minutes
    pc,                 \* per handler thread: position in the handler
    event,              \* per handler: the event being handled
    conv_key,           \* per handler: local conv_key
    history,            \* per handler: local history (result of get_history)
    messages,           \* per handler: local messages of the agent loop
    response,           \* per handler: the completion response being processed
    tool_results,       \* per handler: local tool_results of the current round
    assistant_content,  \* per handler: local assistant_content of the round
    block_idx,          \* per handler: position of the for loop in response.content
    stale,              \* per handler: local stale list of the sweep
    scan,               \* per handler: local now of the sweep, and the dict it scanned
    exc,                \* per handler: the exception being propagated
    nextId,             \* next tool-call identifier the completion service issues
    nEvents,            \* number of events delivered so far
    last_backend,       \* per handler: outcome of the last query-backend call
    last_saved,         \* per key: the arguments of the last save_history call
    program,            \* the program that runs
    got,                \* per handler: the entry of conv_key as get_history left it
    calls,              \* per handler: completion-service calls made for the event
    rounds,             \* per handler: tool-use responses received for the event
    dispatches,         \* per handler: process_tool_call calls made for the event
    fed,                \* per handler: the responses the loop received, each with
                        \* the calls of process_tool_call made for it and their outcomes
    reply,              \* per handler: the text the agent loop returned
    placeholder,        \* per handler: the text the placeholder message shows
    said,               \* per handler: the texts posted with say() for the event
    time_off,           \* number of rows written to the table time_off
    calendar,           \* number of events created on the calendar
    accumulated_text,   \* per handler: local accumulated_text of the streaming loop
    last_update_time,   \* per handler: local last_update_time of the streaming loop
    first_update,       \* per handler: local first_update of the streaming loop
    edits,              \* per handler: the chat_update calls on the placeholder
    stream_opened,      \* per handler: elapsed when the round's stream was opened
    placeholder_ts,     \* per handler: local placeholder_ts, the ts of the placeholder
    posted,             \* per handler: the ts of the placeholders posted for the event
    elapsed,            \* tenths of a second that have passed since the start
    skew,               \* tenths of a second the wall clock has been set forward
    fragments           \* number of fragments the completion service has streamed

vars == <<conversation_store, now, pc, event, conv_key, history, messages,
          response, tool_results, assistant_content, block_idx, stale, scan,
          exc, nextId, nEvents, last_backend, last_saved, program, got, calls,
          rounds, dispatches, fed, reply, placeholder, said, time_off, calendar,
          accumulated_text, last_update_time, first_update, edits,
          stream_opened, placeholder_ts, posted, elapsed, skew, fragments>>

(***************************************************************************)
(* Turns and content blocks.                                               *)
(***************************************************************************)
\* A content that is a Python str: the contextual message of a user turn.
StrContent(t) == [kind |-> "str", text |-> t]

\* A content that is a Python list of blocks.
ListContent(bs) == [kind |-> "list", blocks |-> bs]

Message(role, content) == [role |-> role, content |-> content]

TextBlock(t) == [type |-> "text", text |-> t]

ToolUseBlock(id, name, input) ==
    [type |-> "tool_use", id |-> id, name |-> name, input |-> input]

ToolResultBlock(id, result) ==
    [type |-> "tool_result", tool_use_id |-> id, content |-> result]

NoKey == "none"
NoEvent == [type |-> "none", user |-> "", channel |-> "", channel_type |-> "", text |-> 0]
NoResponse == [stop_reason |-> "none", content |-> <<>>]
NoExc == [type |-> "none", origin |-> "none"]
NoScan == [now |-> 0, store |-> <<>>]
NoReply == <<"none">>
NoMessage == <<"none">>
NoTs == <<0, 0>>

(***************************************************************************)
(* CONVERSATION MEMORY                                                     *)
(***************************************************************************)
\* get_conversation_key leaving the channel out of the key.
get_conversation_key_no_channel(channel, channel_type, user_id) ==
    IF channel_type = "im" THEN "dm_" \o user_id
    ELSE "ch_" \o user_id

\* f"dm_{user_id}" and f"ch_{channel}_{user_id}"
get_conversation_key(channel, channel_type, user_id) ==
    IF channel_type = "im" THEN "dm_" \o user_id
    ELSE "ch_" \o channel \o "_" \o user_id

\* isinstance(content, list) and any(c.get("type") == "tool_result" ...)
HasToolResult(content) ==
    /\ content.kind = "list"
    /\ \E i \in 1..Len(content.blocks) : content.blocks[i].type = "tool_result"

\* turn_starts without the test for tool_result content: every user-role
\* message counts as the start of a turn.
turn_starts_every_user(msgs) ==
    SelectSeq([i \in 1..Len(msgs) |-> i], LAMBDA i : msgs[i].role = "user")

\* turn_starts without the test of the role: every message counts as the
\* start of a turn.
turn_starts_every_message(msgs) == [i \in 1..Len(msgs) |-> i]

\* The list turn_starts of trim_history, as 1-based positions.
turn_starts(msgs) ==
    SelectSeq([i \in 1..Len(msgs) |-> i],
              LAMBDA i : msgs[i].role = "user" /\ ~HasToolResult(msgs[i].content))

\* trim_history slicing one turn start too early: turn_starts[-max_turns - 1].
trim_history_one_more(msgs, max_turns) ==
    LET ts == turn_starts(msgs) IN
    IF Len(ts) > max_turns
    THEN SubSeq(msgs, ts[Len(ts) - max_turns], Len(msgs))
    ELSE msgs

\* trim_history cutting as soon as max_turns turn starts are there, down to
\* max_turns - 1.
trim_history_at_max(msgs, max_turns) ==
    LET ts == turn_starts(msgs) IN
    IF Len(ts) >= max_turns
    THEN SubSeq(msgs, ts[Len(ts) - max_turns + 2], Len(msgs))
    ELSE msgs

\* trim_history keeping the first turn and the last max_turns - 1.
trim_history_keeping_first(msgs, max_turns) ==
    LET ts == turn_starts(msgs) IN
    IF Len(ts) > max_turns
    THEN SubSeq(msgs, 1, ts[2] - 1) \o SubSeq(msgs, ts[Len(ts) - max_turns + 2], Len(msgs))
    ELSE msgs

trim_history(msgs, max_turns) ==
    LET ts == turn_starts(msgs) IN
    IF Len(ts) > max_turns
    THEN SubSeq(msgs, ts[Len(ts) - max_turns + 1], Len(msgs))
    ELSE msgs

\* del conversation_store[key]
DictDel(d, key) == [k \in (DOMAIN d) \ {key} |-> d[k]]

\* conversation_store[key] = entry
DictSet(d, key, entry) ==
    [k \in (DOMAIN d) \cup {key} |-> IF k = key THEN entry ELSE d[k]]

\* The test of get_history with >= for >.
Expired_at_ttl(entry, t) == t - entry.last_activity >= HISTORY_TTL_MINUTES

\* now - last_activity > timedelta(minutes=HISTORY_TTL_MINUTES)
Expired(entry, t) == t - entry.last_activity > HISTORY_TTL_MINUTES

\* The test of cleanup_stale_conversations without the factor 2.
Stale_single_ttl(entry, t) == t - entry.last_activity > HISTORY_TTL_MINUTES

\* The test of cleanup_stale_conversations on a quarter of an hour of idleness.
Stale_quarter_hour(entry, t) == t - entry.last_activity > HISTORY_TTL_MINUTES \div 2

\* now - last_activity > timedelta(minutes=HISTORY_TTL_MINUTES * 2)
Stale(entry, t) == t - entry.last_activity > HISTORY_TTL_MINUTES * 2

\* The keys of the list stale of cleanup_stale_conversations.  The list is in
\* the dict's insertion order, which the model does not keep: the for loop
\* over it is modelled as taking the keys in any order.
StaleKeys(d, t) == {k \in DOMAIN d : Stale(d[k], t)}

\* What get_history(key) returns when it runs at time t on the dict d.
get_history(d, key, t) ==
    IF key \notin DOMAIN d THEN <<>>
    ELSE IF Expired(d[key], t) THEN <<>>
    ELSE d[key].messages

(***************************************************************************)
(* TOOL PROCESSORS                                                         *)
(***************************************************************************)
\* A tool input is modelled by the set of field names the mapping holds.
SqlFields == {"query", "explanation"}
OooFields == {"slack_user_id", "slack_user_name", "first_day_off",
              "last_day_off", "original_message"}

\* What the collaborators do during one dispatch: the query backend and the
\* persistence write fail or not, the calendar is unconfigured, fails or works.
Envs == [db_fail : BOOLEAN, cal : {"ok", "unconfigured", "error"}]

\* database.execute_query: the rows, or a raised "Database error".
execute_query(env) ==
    IF env.db_fail
    THEN [raised |-> TRUE, error |-> "Database error", data |-> <<>>]
    ELSE [raised |-> FALSE, error |-> "", data |-> <<"row">>]

\* database.insert_time_off: the inserted row, or a raised "Database error".
insert_time_off(env) ==
    IF env.db_fail
    THEN [raised |-> TRUE, error |-> "Database error", data |-> <<>>]
    ELSE [raised |-> FALSE, error |-> "", data |-> <<"row">>]

\* calendar_service.create_ooo_event: never raises.
create_ooo_event(env) ==
    IF env.cal = "unconfigured"
    THEN [success |-> FALSE, error |-> "Google Calendar not configured"]
    ELSE IF env.cal = "error"
    THEN [success |-> FALSE, error |-> "calendar error"]
    ELSE [success |-> TRUE, error |-> ""]

\* The outcome of one call of process_tool_call: either it raises (raised,
\* exc_type) or it returns result; inserted and cal_created are its effects,
\* cal_called tells whether it has called create_ooo_event.
Returned(result, inserted, cal_created) ==
    [raised |-> FALSE, exc_type |-> "none", result |-> result,
     inserted |-> inserted, cal_created |-> cal_created, cal_called |-> FALSE]

Raised(exc_type) ==
    [raised |-> TRUE, exc_type |-> exc_type, result |-> [success |-> FALSE],
     inserted |-> FALSE, cal_created |-> FALSE, cal_called |-> FALSE]

\* An outcome reached through the call of create_ooo_event.
AfterCalendar(out) == [out EXCEPT !.cal_called = TRUE]

\* process_tool_call with execute_query outside the try block.
process_tool_call_no_try(tool_name, tool_input, env) ==
    IF tool_name = "execute_sql" THEN
        IF "query" \notin tool_input THEN Raised("KeyError")
        ELSE LET q == execute_query(env) IN
             IF q.raised
             THEN Raised("Exception")
             ELSE Returned([success |-> TRUE, results |-> q.data,
                            row_count |-> Len(q.data)], FALSE, FALSE)
    ELSE Returned([success |-> FALSE, error |-> "Unknown tool"], FALSE, FALSE)

\* process_tool_call treating a failure of create_ooo_event as a failure of
\* the call.
process_tool_call_cal_fatal(tool_name, tool_input, env) ==
    IF tool_name = "execute_sql" THEN
        IF "query" \notin tool_input THEN Raised("KeyError")
        ELSE LET q == execute_query(env) IN
             IF q.raised
             THEN Returned([success |-> FALSE, error |-> q.error], FALSE, FALSE)
             ELSE Returned([success |-> TRUE, results |-> q.data,
                            row_count |-> Len(q.data)], FALSE, FALSE)
    ELSE IF tool_name = "insert_time_off" THEN
        IF ~({"slack_user_name", "first_day_off", "last_day_off"} \subseteq tool_input)
        THEN Raised("KeyError")
        ELSE IF ~(OooFields \subseteq tool_input)
        THEN Returned([success |-> FALSE, error |-> "KeyError"], FALSE, FALSE)
        ELSE LET w == insert_time_off(env) IN
             IF w.raised
             THEN Returned([success |-> FALSE, error |-> w.error], FALSE, FALSE)
             ELSE LET cal_result == create_ooo_event(env) IN
                  IF cal_result.success
                  THEN AfterCalendar(
                           Returned([success |-> TRUE, message |-> "Time off recorded",
                                     calendar_event_created |-> TRUE], TRUE, TRUE))
                  ELSE AfterCalendar(
                           Returned([success |-> FALSE, error |-> cal_result.error],
                                    TRUE, FALSE))
    ELSE Returned([success |-> FALSE, error |-> "Unknown tool"], FALSE, FALSE)

\* process_tool_call going on to the calendar and reporting success after
\* insert_time_off has raised.
process_tool_call_write_unchecked(tool_name, tool_input, env) ==
    IF tool_name = "execute_sql" THEN
        IF "query" \notin tool_input THEN Raised("KeyError")
        ELSE LET q == execute_query(env) IN
             IF q.raised
             THEN Returned([success |-> FALSE, error |-> q.error], FALSE, FALSE)
             ELSE Returned([success |-> TRUE, results |-> q.data,
                            row_count |-> Len(q.data)], FALSE, FALSE)
    ELSE IF tool_name = "insert_time_off" THEN
        IF ~({"slack_user_name", "first_day_off", "last_day_off"} \subseteq tool_input)
        THEN Raised("KeyError")
        ELSE IF ~(OooFields \subseteq tool_input)
        THEN Returned([success |-> FALSE, error |-> "KeyError"], FALSE, FALSE)
        ELSE LET w == insert_time_off(env)
                 cal_result == create_ooo_event(env)
             IN AfterCalendar(
                    Returned([success |-> TRUE, message |-> "Time off recorded",
                              calendar_event_created |-> cal_result.success],
                             ~w.raised, cal_result.success))
    ELSE Returned([success |-> FALSE, error |-> "Unknown tool"], FALSE, FALSE)

\* process_tool_call without the last return statement: a name it does not
\* know falls through to the query branch.
process_tool_call_fall_through(tool_name, tool_input, env) ==
    IF tool_name = "insert_time_off" THEN
        IF ~({"slack_user_name", "first_day_off", "last_day_off"} \subseteq tool_input)
        THEN Raised("KeyError")
        ELSE IF ~(OooFields \subseteq tool_input)
        THEN Returned([success |-> FALSE, error |-> "KeyError"], FALSE, FALSE)
        ELSE LET w == insert_time_off(env) IN
             IF w.raised
             THEN Returned([success |-> FALSE, error |-> w.error], FALSE, FALSE)
             ELSE LET cal_result == create_ooo_event(env) IN
                  AfterCalendar(
                      Returned([success |-> TRUE, message |-> "Time off recorded",
                                calendar_event_created |-> cal_result.success],
                               TRUE, cal_result.success))
    ELSE IF "query" \notin tool_input THEN Raised("KeyError")
    ELSE LET q == execute_query(env) IN
         IF q.raised
         THEN Returned([success |-> FALSE, error |-> q.error], FALSE, FALSE)
         ELSE Returned([success |-> TRUE, results |-> q.data,
                        row_count |-> Len(q.data)], FALSE, FALSE)

\* process_tool_call calling create_ooo_event before insert_time_off.
process_tool_call_calendar_first(tool_name, tool_input, env) ==
    IF tool_name = "execute_sql" THEN
        IF "query" \notin tool_input THEN Raised("KeyError")
        ELSE LET q == execute_query(env) IN
             IF q.raised
             THEN Returned([success |-> FALSE, error |-> q.error], FALSE, FALSE)
             ELSE Returned([success |-> TRUE, results |-> q.data,
                            row_count |-> Len(q.data)], FALSE, FALSE)
    ELSE IF tool_name = "insert_time_off" THEN
        IF ~({"slack_user_name", "first_day_off", "last_day_off"} \subseteq tool_input)
        THEN Raised("KeyError")
        ELSE IF ~(OooFields \subseteq tool_input)
        THEN Returned([success |-> FALSE, error |-> "KeyError"], FALSE, FALSE)
        ELSE LET cal_result == create_ooo_event(env)
                 w == insert_time_off(env)
             IN IF w.raised
                THEN AfterCalendar(
                         Returned([success |-> FALSE, error |-> w.error],
                                  FALSE, cal_result.success))
                ELSE AfterCalendar(
                         Returned([success |-> TRUE, message |-> "Time off recorded",
                                   calendar_event_created |-> cal_result.success],
                                  TRUE, cal_result.success))
    ELSE Returned([success |-> FALSE, error |-> "Unknown tool"], FALSE, FALSE)

process_tool_call(tool_name, tool_input, env) ==
    IF tool_name = "execute_sql" THEN
        IF "query" \notin tool_input THEN Raised("KeyError")
        ELSE LET q == execute_query(env) IN
             IF q.raised
             THEN Returned([success |-> FALSE, error |-> q.error], FALSE, FALSE)
             ELSE Returned([success |-> TRUE, results |-> q.data,
                            row_count |-> Len(q.data)], FALSE, FALSE)
    ELSE IF tool_name = "insert_time_off" THEN
        IF ~({"slack_user_name", "first_day_off", "last_day_off"} \subseteq tool_input)
        THEN Raised("KeyError")
        ELSE IF ~(OooFields \subseteq tool_input)
        THEN Returned([success |-> FALSE, error |-> "KeyError"], FALSE, FALSE)
        ELSE LET w == insert_time_off(env) IN
             IF w.raised
             THEN Returned([success |-> FALSE, error |-> w.error], FALSE, FALSE)
             ELSE LET cal_result == create_ooo_event(env) IN
                  AfterCalendar(
                      Returned([success |-> TRUE, message |-> "Time off recorded",
                                calendar_event_created |-> cal_result.success],
                               TRUE, cal_result.success))
    ELSE Returned([success |-> FALSE, error |-> "Unknown tool"], FALSE, FALSE)

(***************************************************************************)
(* HELPERS.  A text is a sequence of tokens: "**" is the Markdown bold     *)
(* mark, "# " a Markdown header prefix, "\n" a line break, any other token *)
(* a run of plain characters.                                              *)
(***************************************************************************)
\* The messages of classify_api_error.
RateLimitText == <<"rate limited, try again in 60 seconds">>
CapacityText == <<"servers at capacity, try again in a minute">>
GenericErrorText == <<"Sorry, I encountered an error processing your request. Please try again.">>

\* The apology of the out-of-office handlers.
RephraseText == <<"Sorry, I had trouble processing that. Could you try rephrasing your time-off request?">>

\* The placeholder text of post_placeholder.
Hourglass == <<"hourglass">>

\* str(e) of the exception holds "rate_limit"/"429", "overloaded"/"529", or neither.
classify_api_error(e) ==
    IF e.type \in {"rate_limit", "429"} THEN RateLimitText
    ELSE IF e.type \in {"overloaded", "529"} THEN CapacityText
    ELSE GenericErrorText

\* re.sub(r'\*\*(.+?)\*\*', r'*\1*', text): from the left, a "**" and the nearest
\* "**" with something between them become "*".
RECURSIVE bold_to_mrkdwn(_)
bold_to_mrkdwn(text) ==
    IF text = <<>> THEN <<>>
    ELSE LET closing == {j \in 3..Len(text) : text[j] = "**"} IN
         IF text[1] = "**" /\ closing # {}
         THEN LET j == CHOOSE c \in closing : \A i \in closing : c <= i IN
              <<"*">> \o SubSeq(text, 2, j - 1) \o <<"*">>
                     \o bold_to_mrkdwn(SubSeq(text, j + 1, Len(text)))
         ELSE <<Head(text)>> \o bold_to_mrkdwn(Tail(text))

\* re.sub(r'^#{1,6}\s+', '', text, flags=re.MULTILINE): a header prefix at the
\* start of a line goes.
strip_headers(text) ==
    SelectSeq([i \in 1..Len(text) |->
                  IF text[i] = "# " /\ (i = 1 \/ text[i - 1] = "\n")
                  THEN "" ELSE text[i]],
              LAMBDA tok : tok # "")

format_for_slack(text) == strip_headers(bold_to_mrkdwn(text))

\* final_text += block.text over the text blocks of content, in order.
RECURSIVE final_text(_)
final_text(content) ==
    IF content = <<>> THEN <<>>
    ELSE IF Head(content).type = "text"
    THEN Head(content).text \o final_text(Tail(content))
    ELSE final_text(Tail(content))

\* The number of characters of a token.
Chars(tok) ==
    CASE tok \in {"**", "# "} -> 2
      [] tok = "w9" -> 9
      [] tok = "w10" -> 10
      [] tok = "w29" -> 29
      [] tok = "w40" -> 40
      [] OTHER -> 1

\* len(text)
RECURSIVE len(_)
len(text) == IF text = <<>> THEN 0 ELSE Chars(Head(text)) + len(Tail(text))

IsSpace(tok) == tok \in {" ", "\n"}

\* text.strip(): the white space at both ends goes (of a header prefix at the
\* end, its blank).
strip(text) ==
    LET inner == {i \in 1..Len(text) : ~IsSpace(text[i])} IN
    IF inner = {} THEN <<>>
    ELSE LET first == CHOOSE i \in inner : \A j \in inner : i <= j
             last == CHOOSE i \in inner : \A j \in inner : j <= i
         IN SubSeq(text, first, last - 1)
            \o <<IF text[last] = "# " THEN "#" ELSE text[last]>>

\* min_length without the case of the first update.
min_length_zero(first) == 0

\* min_length = 40 if first_update else 0
min_length(first) == IF first THEN 40 ELSE 0

\* time.time(), in tenths of a second.
time_time(t, adjustment) == Epoch + t + adjustment

\* now - last_update_time >= SLACK_UPDATE_INTERVAL
\*     and len(accumulated_text.strip()) >= min_length
Gate(t, last, text, first) ==
    /\ t - last >= SLACK_UPDATE_INTERVAL
    /\ len(strip(text)) >= min_length(first)

(***************************************************************************)
(* The completion service.  A response is terminal text, or one or more    *)
(* tool-call requests (with optional text) and stop_reason "tool_use".     *)
(***************************************************************************)
TextOf(text) == [type |-> "text", text |-> text]
TextT == TextOf(<<"t">>)
CallT(name, input) == [type |-> "tool_use", name |-> name, input |-> input]

NumCalls(shape) == Cardinality({i \in 1..Len(shape) : shape[i].type = "tool_use"})

\* The blocks of a response of the given shape, its tool calls numbered from id.
RECURSIVE Blocks(_, _)
Blocks(shape, id) ==
    IF shape = <<>> THEN <<>>
    ELSE IF Head(shape).type = "tool_use"
    THEN <<ToolUseBlock(id, Head(shape).name, Head(shape).input)>>
         \o Blocks(Tail(shape), id + 1)
    ELSE <<TextBlock(Head(shape).text)>> \o Blocks(Tail(shape), id)

ResponseOf(shape, id) ==
    [stop_reason |-> IF NumCalls(shape) > 0 THEN "tool_use" ELSE "end_turn",
     content |-> Blocks(shape, id)]

(***************************************************************************)
(* Initial state: the module has been loaded, no event has arrived.        *)
(***************************************************************************)
EmptyDict == [k \in {} |-> 0]

\* The state after the import of program p.
InitOf(p) ==
    /\ conversation_store = EmptyDict
    /\ now = 0
    /\ pc = [h \in Handlers |-> "idle"]
    /\ event = [h \in Handlers |-> NoEvent]
    /\ conv_key = [h \in Handlers |-> NoKey]
    /\ history = [h \in Handlers |-> <<>>]
    /\ messages = [h \in Handlers |-> <<>>]
    /\ response = [h \in Handlers |-> NoResponse]
    /\ tool_results = [h \in Handlers |-> <<>>]
    /\ assistant_content = [h \in Handlers |-> <<>>]
    /\ block_idx = [h \in Handlers |-> 0]
    /\ stale = [h \in Handlers |-> {}]
    /\ scan = [h \in Handlers |-> NoScan]
    /\ exc = [h \in Handlers |-> NoExc]
    /\ nextId = 1
    /\ nEvents = 0
    /\ last_backend = [h \in Handlers |-> "none"]
    /\ last_saved = EmptyDict
    /\ program = p
    /\ got = [h \in Handlers |-> <<>>]
    /\ calls = [h \in Handlers |-> 0]
    /\ rounds = [h \in Handlers |-> 0]
    /\ dispatches = [h \in Handlers |-> 0]
    /\ fed = [h \in Handlers |-> <<>>]
    /\ reply = [h \in Handlers |-> NoReply]
    /\ placeholder = [h \in Handlers |-> NoMessage]
    /\ said = [h \in Handlers |-> <<>>]
    /\ time_off = 0
    /\ calendar = 0
    /\ accumulated_text = [h \in Handlers |-> <<>>]
    /\ last_update_time = [h \in Handlers |-> 0]
    /\ first_update = [h \in Handlers |-> TRUE]
    /\ edits = [h \in Handlers |-> <<>>]
    /\ stream_opened = [h \in Handlers |-> 0]
    /\ placeholder_ts = [h \in Handlers |-> NoTs]
    /\ posted = [h \in Handlers |-> <<>>]
    /\ elapsed = 0
    /\ skew = 0
    /\ fragments = 0

Init == InitOf("yuri-bot")

\* The locals of the agent loop.
loop_vars == <<messages, response, tool_results, assistant_content, block_idx,
               nextId, last_backend>>

\* The locals of cleanup_stale_conversations.
sweep_vars == <<stale, scan>>

\* What the agent loop has done for the event so far.
count_vars == <<calls, rounds, dispatches, fed>>

\* What the user has been shown for the event, and the loop's return value.
out_vars == <<reply, placeholder, said>>

\* The program and the collaborators' stores.
world_vars == <<program, time_off, calendar>>

\* The locals of the streaming loop and what it has done to the placeholder.
stream_vars == <<accumulated_text, last_update_time, first_update, edits,
                 stream_opened, placeholder_ts, posted>>

\* The clocks, and how much the completion service has streamed.
clock_vars == <<elapsed, skew, fragments>>

\* The handler function returns (or an exception leaves it): its locals die.
Return(h, e) ==
    /\ pc' = [pc EXCEPT ![h] = "idle"]
    /\ exc' = [exc EXCEPT ![h] = e]
    /\ event' = [event EXCEPT ![h] = NoEvent]
    /\ conv_key' = [conv_key EXCEPT ![h] = NoKey]
    /\ history' = [history EXCEPT ![h] = <<>>]
    /\ messages' = [messages EXCEPT ![h] = <<>>]
    /\ response' = [response EXCEPT ![h] = NoResponse]
    /\ tool_results' = [tool_results EXCEPT ![h] = <<>>]
    /\ assistant_content' = [assistant_content EXCEPT ![h] = <<>>]
    /\ block_idx' = [block_idx EXCEPT ![h] = 0]
    /\ stale' = [stale EXCEPT ![h] = {}]
    /\ scan' = [scan EXCEPT ![h] = NoScan]
    /\ last_backend' = [last_backend EXCEPT ![h] = "none"]
    /\ got' = [got EXCEPT ![h] = <<>>]
    /\ calls' = [calls EXCEPT ![h] = 0]
    /\ rounds' = [rounds EXCEPT ![h] = 0]
    /\ dispatches' = [dispatches EXCEPT ![h] = 0]
    /\ fed' = [fed EXCEPT ![h] = <<>>]
    /\ reply' = [reply EXCEPT ![h] = NoReply]
    /\ placeholder' = [placeholder EXCEPT ![h] = NoMessage]
    /\ said' = [said EXCEPT ![h] = <<>>]
    /\ accumulated_text' = [accumulated_text EXCEPT ![h] = <<>>]
    /\ last_update_time' = [last_update_time EXCEPT ![h] = 0]
    /\ first_update' = [first_update EXCEPT ![h] = TRUE]
    /\ edits' = [edits EXCEPT ![h] = <<>>]
    /\ stream_opened' = [stream_opened EXCEPT ![h] = 0]
    /\ placeholder_ts' = [placeholder_ts EXCEPT ![h] = NoTs]
    /\ posted' = [posted EXCEPT ![h] = <<>>]

KeyError(origin) == [type |-> "KeyError", origin |-> origin]

\* An exception of the Slack client.
SlackApiError(origin) == [type |-> "SlackApiError", origin |-> origin]

\* One call of client.chat_update on the placeholder: the gated edit of a
\* fragment, the final edit, or the edit of the except clause; the text it
\* carries, whether Slack accepted it, when it was issued, during which
\* completion call of the event, and the ts of the message it names.
Edit(kind, text, ok, at, call, ts) ==
    [kind |-> kind, text |-> text, ok |-> ok, at |-> at, call |-> call, ts |-> ts]

(***************************************************************************)
(* EVENT HANDLERS: handle_mention and handle_message, up to the call of    *)
(* get_history (channels with memory) or of chat_with_claude (the          *)
(* out-of-office channel).                                                 *)
(***************************************************************************)
\* An app_mention in a channel, or a message in a direct-message channel.
MentionEvent(user, channel) ==
    [type |-> "app_mention", user |-> user, channel |-> channel,
     channel_type |-> "channel"]

DmEvent(user) ==
    [type |-> "message", user |-> user, channel |-> "D", channel_type |-> "im"]

\* A message in the out-of-office channel.
OooEvent(user) ==
    [type |-> "message", user |-> user, channel |-> OOO_CHANNEL_ID,
     channel_type |-> "channel"]

\* if channel == OOO_CHANNEL_ID
IsOoo(ev) == ev.channel = OOO_CHANNEL_ID

\* The event of handler h goes through chat_with_claude_streaming: the
\* handlers of src/yuri-bot.py outside the out-of-office channel.
Streams(h) == program = "yuri-bot" /\ ~IsOoo(event[h])

Receive(h, ev) ==
    /\ pc[h] = "idle"
    /\ nEvents' = nEvents + 1
    /\ event' = [event EXCEPT ![h] =
                    [type |-> ev.type, user |-> ev.user, channel |-> ev.channel,
                     channel_type |-> ev.channel_type, text |-> nEvents + 1]]
    /\ conv_key' = [conv_key EXCEPT ![h] =
                    IF IsOoo(ev) THEN NoKey
                    ELSE get_conversation_key(ev.channel, ev.channel_type, ev.user)]
    /\ exc' = [exc EXCEPT ![h] = NoExc]
    /\ pc' = [pc EXCEPT ![h] = IF IsOoo(ev) THEN "prep" ELSE "get"]
    /\ UNCHANGED <<conversation_store, now, history, loop_vars, sweep_vars, last_saved,
                   got, stream_vars, count_vars, out_vars, world_vars, clock_vars>>

(***************************************************************************)
(* get_history, in the steps another thread can interleave with.           *)
(***************************************************************************)
\* if key not in conversation_store: return []
GetHistoryCheck(h) ==
    /\ pc[h] = "get"
    /\ IF conv_key[h] \notin DOMAIN conversation_store
       THEN /\ history' = [history EXCEPT ![h] = <<>>]
            /\ pc' = [pc EXCEPT ![h] = "prep"]
       ELSE /\ pc' = [pc EXCEPT ![h] = "get_entry"]
            /\ UNCHANGED history
    /\ UNCHANGED <<conversation_store, now, event, conv_key, loop_vars, sweep_vars,
                   exc, nEvents, last_saved, got, stream_vars, count_vars, out_vars, world_vars, clock_vars>>

\* get_history refreshing last_activity of the entry it reads.
GetHistoryEntry_touching(h) ==
    /\ pc[h] = "get_entry"
    /\ IF conv_key[h] \notin DOMAIN conversation_store
       THEN /\ Return(h, KeyError("get_history"))
            /\ UNCHANGED <<conversation_store, now, nextId, nEvents, last_saved,
                           world_vars, clock_vars>>
       ELSE /\ IF Expired(conversation_store[conv_key[h]], now)
               THEN /\ pc' = [pc EXCEPT ![h] = "get_del"]
                    /\ UNCHANGED <<conversation_store, history, got, stream_vars>>
               ELSE /\ history' = [history EXCEPT ![h] =
                                      conversation_store[conv_key[h]].messages]
                    /\ got' = [got EXCEPT ![h] = <<conversation_store[conv_key[h]]>>]
                    /\ conversation_store' = DictSet(conversation_store, conv_key[h],
                           [messages |-> conversation_store[conv_key[h]].messages,
                            last_activity |-> now])
                    /\ pc' = [pc EXCEPT ![h] = "prep"]
                    /\ UNCHANGED stream_vars
            /\ UNCHANGED <<now, event, conv_key, loop_vars,
                           sweep_vars, exc, nEvents, last_saved, count_vars,
                           out_vars, world_vars, clock_vars>>

\* entry = conversation_store[key]; the test of last_activity; return list(...)
GetHistoryEntry(h) ==
    /\ pc[h] = "get_entry"
    /\ IF conv_key[h] \notin DOMAIN conversation_store
       THEN /\ Return(h, KeyError("get_history"))
            /\ UNCHANGED <<conversation_store, now, nextId, nEvents, last_saved,
                           world_vars, clock_vars>>
       ELSE /\ IF Expired(conversation_store[conv_key[h]], now)
               THEN /\ pc' = [pc EXCEPT ![h] = "get_del"]
                    /\ UNCHANGED <<history, got, stream_vars>>
               ELSE /\ history' = [history EXCEPT ![h] =
                                      conversation_store[conv_key[h]].messages]
                    /\ got' = [got EXCEPT ![h] = <<conversation_store[conv_key[h]]>>]
                    /\ pc' = [pc EXCEPT ![h] = "prep"]
                    /\ UNCHANGED stream_vars
            /\ UNCHANGED <<conversation_store, now, event, conv_key, loop_vars,
                           sweep_vars, exc, nEvents, last_saved, count_vars,
                           out_vars, world_vars, clock_vars>>

\* del conversation_store[key]; return []
GetHistoryDel(h) ==
    /\ pc[h] = "get_del"
    /\ IF conv_key[h] \notin DOMAIN conversation_store
       THEN /\ Return(h, KeyError("get_history"))
            /\ UNCHANGED <<conversation_store, now, nextId, nEvents, last_saved,
                           world_vars, clock_vars>>
       ELSE /\ conversation_store' = DictDel(conversation_store, conv_key[h])
            /\ history' = [history EXCEPT ![h] = <<>>]
            /\ pc' = [pc EXCEPT ![h] = "prep"]
            /\ UNCHANGED <<now, event, conv_key, loop_vars, sweep_vars, exc, nEvents,
                           last_saved, got, stream_vars, count_vars, out_vars, world_vars, clock_vars>>

(***************************************************************************)
(* chat_with_claude_streaming and chat_with_claude.  The two loops differ  *)
(* in how they call the completion service and in what they do with the    *)
(* final text; their rounds are the same code.                             *)
(***************************************************************************)
\* contextual_message: the user's identity and the message text.
ContextualMessage(ev) == StrContent([slack_id |-> ev.user, message |-> ev.text])

\* result["ts"] of client.chat_postMessage: the ts of the message it has
\* posted, which no other message has.
post_placeholder(h) == <<event[h].text, Len(posted[h]) + 1>>

\* post_placeholder (streaming), then the head of the loop function:
\* messages = list(history) (or []), messages.append(user turn); in the
\* streaming loop first_update = True and the head of the first round:
\* accumulated_text = "", last_update_time = 0.
Prep(h) ==
    /\ pc[h] = "prep"
    /\ messages' = [messages EXCEPT ![h] =
                      Append(history[h], Message("user", ContextualMessage(event[h])))]
    /\ history' = [history EXCEPT ![h] = <<>>]
    /\ placeholder' = [placeholder EXCEPT ![h] =
                         IF Streams(h) THEN Hourglass ELSE placeholder[h]]
    /\ first_update' = [first_update EXCEPT ![h] = TRUE]
    /\ accumulated_text' = [accumulated_text EXCEPT ![h] = <<>>]
    /\ last_update_time' = [last_update_time EXCEPT ![h] = 0]
    /\ stream_opened' = [stream_opened EXCEPT ![h] = IF Streams(h) THEN elapsed ELSE 0]
    /\ placeholder_ts' = [placeholder_ts EXCEPT ![h] =
                            IF Streams(h) THEN post_placeholder(h) ELSE placeholder_ts[h]]
    /\ posted' = [posted EXCEPT ![h] =
                    IF Streams(h) THEN Append(posted[h], post_placeholder(h))
                    ELSE posted[h]]
    /\ pc' = [pc EXCEPT ![h] = "call"]
    /\ UNCHANGED <<conversation_store, now, event, conv_key, response,
                   tool_results, assistant_content, block_idx, sweep_vars, exc,
                   nextId, nEvents, last_backend, last_saved, got, edits,
                   count_vars, reply, said, world_vars, clock_vars>>

\* The loop functions all returning final_text as it is.
LoopReply_unformatted(h, content) == final_text(content)

\* The value the loop function returns beside messages: final_text
\* (chat_with_claude_streaming; chat_with_claude of src/app.py) or
\* format_for_slack(final_response) (chat_with_claude of src/yuri-bot.py).
LoopReply(h, content) ==
    IF program = "yuri-bot" /\ ~Streams(h)
    THEN format_for_slack(final_text(content))
    ELSE final_text(content)

\* The last chat_update only when the gate of the fragments is open.
final_edit_gated(h, text, edit_ok) ==
    IF Gate(time_time(elapsed, skew), last_update_time[h], text, first_update[h])
    THEN <<Edit("final", format_for_slack(text), edit_ok, elapsed, calls[h] + 1,
           placeholder_ts[h])>>
    ELSE <<>>

\* try: client.chat_update(..., text=format_for_slack(final_text)): the calls
\* of chat_update the streaming loop makes when the response is final.
final_edit(h, text, edit_ok) ==
    <<Edit("final", format_for_slack(text), edit_ok, elapsed, calls[h] + 1,
           placeholder_ts[h])>>

\* The completion service returns a message of the given shape
\* (anthropic.messages.stream / anthropic.messages.create).  On a message that
\* is not tool_use the loop function ends: the streaming loop issues its last
\* chat_update, which succeeds or fails (edit_ok), the final assistant turn is
\* appended and the function returns.
Complete(h, shape, edit_ok) ==
    /\ pc[h] = "call"
    /\ LET r == ResponseOf(shape, nextId) IN
       IF r.stop_reason = "tool_use"
       THEN /\ response' = [response EXCEPT ![h] = r]
            /\ block_idx' = [block_idx EXCEPT ![h] = 1]
            /\ rounds' = [rounds EXCEPT ![h] = rounds[h] + 1]
            /\ pc' = [pc EXCEPT ![h] = "dispatch"]
            /\ UNCHANGED <<messages, reply, placeholder, edits>>
       ELSE /\ response' = [response EXCEPT ![h] = r]
            /\ messages' = [messages EXCEPT ![h] =
                   Append(messages[h], Message("assistant", ListContent(r.content)))]
            /\ reply' = [reply EXCEPT ![h] = LoopReply(h, r.content)]
            /\ placeholder' = [placeholder EXCEPT ![h] =
                   IF Streams(h) /\ edit_ok
                   THEN format_for_slack(final_text(r.content))
                   ELSE placeholder[h]]
            /\ edits' = [edits EXCEPT ![h] =
                   IF Streams(h)
                   THEN edits[h] \o final_edit(h, final_text(r.content), edit_ok)
                   ELSE edits[h]]
            /\ pc' = [pc EXCEPT ![h] = IF IsOoo(event[h]) THEN "say" ELSE "save"]
            /\ UNCHANGED <<block_idx, rounds>>
    /\ calls' = [calls EXCEPT ![h] = calls[h] + 1]
    /\ fed' = [fed EXCEPT ![h] =
                 Append(fed[h], [response |-> ResponseOf(shape, nextId),
                                 dispatched |-> <<>>])]
    /\ nextId' = nextId + NumCalls(shape)
    /\ last_backend' = [last_backend EXCEPT ![h] = "none"]
    /\ UNCHANGED <<conversation_store, now, event, conv_key, history,
                   tool_results, assistant_content, sweep_vars, exc, nEvents,
                   last_saved, got, accumulated_text, last_update_time,
                   first_update, stream_opened, placeholder_ts, posted, dispatches, said, world_vars,
                   clock_vars>>

\* The exception of the completion service swallowed in the loop function,
\* which returns the messages built so far.
CompleteRaise_saving(h, err) ==
    /\ pc[h] = "call"
    /\ exc' = [exc EXCEPT ![h] = [type |-> err, origin |-> "anthropic"]]
    /\ calls' = [calls EXCEPT ![h] = calls[h] + 1]
    /\ pc' = [pc EXCEPT ![h] = IF IsOoo(event[h]) THEN "say" ELSE "save"]
    /\ last_backend' = [last_backend EXCEPT ![h] = "none"]
    /\ UNCHANGED <<conversation_store, now, event, conv_key, history, messages,
                   response, tool_results, assistant_content, block_idx, sweep_vars,
                   nextId, nEvents, last_saved, got, stream_vars, rounds, dispatches, fed, out_vars,
                   world_vars, clock_vars>>

\* The call of the completion service raises: the exception leaves the loop
\* function and reaches the except clause of the handler.
CompleteRaise(h, err) ==
    /\ pc[h] = "call"
    /\ exc' = [exc EXCEPT ![h] = [type |-> err, origin |-> "anthropic"]]
    /\ calls' = [calls EXCEPT ![h] = calls[h] + 1]
    /\ pc' = [pc EXCEPT ![h] = "except"]
    /\ last_backend' = [last_backend EXCEPT ![h] = "none"]
    /\ UNCHANGED <<conversation_store, now, event, conv_key, history, messages,
                   response, tool_results, assistant_content, block_idx, sweep_vars,
                   nextId, nEvents, last_saved, got, stream_vars, rounds, dispatches, fed, out_vars,
                   world_vars, clock_vars>>

\* last_update_time = now inside the try block: skipped when chat_update raises.
next_update_time_on_success(t, last, edit_ok) == IF edit_ok THEN t ELSE last

\* last_update_time = now, after the try statement: whether chat_update raised
\* or not.
next_update_time(t, last, edit_ok) == t

\* One fragment of stream.text_stream arrives, dt tenths of a second after
\* the step before: accumulated_text += text; now = time.time(); when the gate
\* opens, chat_update with the formatted text, which Slack accepts or not
\* (edit_ok; first_update = False when it does), and last_update_time = now.
Fragment(h, text, dt, edit_ok) ==
    /\ pc[h] = "call"
    /\ Streams(h)
    /\ elapsed' = elapsed + dt
    /\ fragments' = fragments + 1
    /\ LET buffer == accumulated_text[h] \o text
           t == time_time(elapsed + dt, skew)
       IN /\ accumulated_text' = [accumulated_text EXCEPT ![h] = buffer]
          /\ IF Gate(t, last_update_time[h], buffer, first_update[h])
             THEN /\ edits' = [edits EXCEPT ![h] =
                         Append(edits[h], Edit("gated", format_for_slack(buffer),
                                               edit_ok, elapsed + dt, calls[h] + 1,
                                               placeholder_ts[h]))]
                  /\ placeholder' = [placeholder EXCEPT ![h] =
                         IF edit_ok THEN format_for_slack(buffer) ELSE placeholder[h]]
                  /\ first_update' = [first_update EXCEPT ![h] =
                         IF edit_ok THEN FALSE ELSE first_update[h]]
                  /\ last_update_time' = [last_update_time EXCEPT ![h] =
                         next_update_time(t, last_update_time[h], edit_ok)]
             ELSE /\ edit_ok
                  /\ UNCHANGED <<edits, placeholder, first_update, last_update_time>>
    /\ UNCHANGED <<conversation_store, now, pc, event, conv_key, history, loop_vars,
                   sweep_vars, exc, nEvents, last_saved, got, stream_opened,
                   placeholder_ts, posted,
                   count_vars, reply, said, world_vars, skew>>

\* The wall clock of the host is set forward or back by d tenths of a second
\* while a stream is open.  The model sets it once in a run.
ClockAdjust(d) ==
    /\ skew = 0
    /\ \E h \in Handlers : pc[h] = "call" /\ Streams(h)
    /\ skew' = d
    /\ UNCHANGED <<conversation_store, now, pc, event, conv_key, history, loop_vars,
                   sweep_vars, exc, nEvents, last_saved, got, stream_vars, count_vars,
                   out_vars, world_vars, elapsed, fragments>>

\* The backend call a dispatch makes, and how it ends.
BackendOutcome(b, env) ==
    IF b.type = "tool_use" /\ b.name = "execute_sql" /\ "query" \in b.input
    THEN (IF env.db_fail THEN "error" ELSE "ok")
    ELSE IF b.type = "tool_use" /\ b.name = "insert_time_off" /\ OooFields \subseteq b.input
    THEN (IF env.db_fail THEN "write_error"
          ELSE IF env.cal = "ok" THEN "written" ELSE "written_calendar_failed")
    ELSE "none"

\* The for loop on a block that is no tool_use block, dropping it.
AppendText_dropping(content, block) == content

\* elif block.type == "text": assistant_content.append(block)
AppendText(content, block) ==
    IF block.type = "text" THEN Append(content, block) ELSE content

\* The for loop going through response.content from its last block to its
\* first.
LoopBlock_reversed(h, env) ==
    /\ pc[h] = "dispatch"
    /\ block_idx[h] <= Len(response[h].content)
    /\ LET block == response[h].content[Len(response[h].content) + 1 - block_idx[h]]
           out == process_tool_call(block.name, block.input, env)
       IN
       IF block.type = "tool_use" THEN
           /\ last_backend' = [last_backend EXCEPT ![h] = BackendOutcome(block, env)]
           /\ dispatches' = [dispatches EXCEPT ![h] = dispatches[h] + 1]
           /\ fed' = [fed EXCEPT ![h][Len(fed[h])].dispatched =
                        Append(@, [name |-> block.name, input |-> block.input,
                                   out |-> out])]
           /\ time_off' = IF out.inserted THEN time_off + 1 ELSE time_off
           /\ calendar' = IF out.cal_created THEN calendar + 1 ELSE calendar
           /\ IF out.raised
              THEN /\ exc' = [exc EXCEPT ![h] =
                                [type |-> out.exc_type, origin |-> "process_tool_call"]]
                   /\ pc' = [pc EXCEPT ![h] = "except"]
                   /\ UNCHANGED <<tool_results, assistant_content, block_idx>>
              ELSE /\ tool_results' = [tool_results EXCEPT ![h] =
                          Append(tool_results[h], ToolResultBlock(block.id, out.result))]
                   /\ assistant_content' = [assistant_content EXCEPT ![h] =
                          Append(assistant_content[h], block)]
                   /\ block_idx' = [block_idx EXCEPT ![h] = block_idx[h] + 1]
                   /\ UNCHANGED <<pc, exc>>
       ELSE
           /\ assistant_content' = [assistant_content EXCEPT ![h] =
                  AppendText(assistant_content[h], block)]
           /\ block_idx' = [block_idx EXCEPT ![h] = block_idx[h] + 1]
           /\ UNCHANGED <<pc, exc, tool_results, last_backend, dispatches, fed, time_off,
                          calendar>>
    /\ UNCHANGED <<conversation_store, now, event, conv_key, history, messages,
                   response, sweep_vars, nextId, nEvents, last_saved, program, clock_vars, got, stream_vars,
                   calls, rounds, out_vars>>

\* One iteration of "for block in response.content".
LoopBlock(h, env) ==
    /\ pc[h] = "dispatch"
    /\ block_idx[h] <= Len(response[h].content)
    /\ LET block == response[h].content[block_idx[h]]
           out == process_tool_call(block.name, block.input, env)
       IN
       IF block.type = "tool_use" THEN
           /\ last_backend' = [last_backend EXCEPT ![h] = BackendOutcome(block, env)]
           /\ dispatches' = [dispatches EXCEPT ![h] = dispatches[h] + 1]
           /\ fed' = [fed EXCEPT ![h][Len(fed[h])].dispatched =
                        Append(@, [name |-> block.name, input |-> block.input,
                                   out |-> out])]
           /\ time_off' = IF out.inserted THEN time_off + 1 ELSE time_off
           /\ calendar' = IF out.cal_created THEN calendar + 1 ELSE calendar
           /\ IF out.raised
              THEN /\ exc' = [exc EXCEPT ![h] =
                                [type |-> out.exc_type, origin |-> "process_tool_call"]]
                   /\ pc' = [pc EXCEPT ![h] = "except"]
                   /\ UNCHANGED <<tool_results, assistant_content, block_idx>>
              ELSE /\ tool_results' = [tool_results EXCEPT ![h] =
                          Append(tool_results[h], ToolResultBlock(block.id, out.result))]
                   /\ assistant_content' = [assistant_content EXCEPT ![h] =
                          Append(assistant_content[h], block)]
                   /\ block_idx' = [block_idx EXCEPT ![h] = block_idx[h] + 1]
                   /\ UNCHANGED <<pc, exc>>
       ELSE
           /\ assistant_content' = [assistant_content EXCEPT ![h] =
                  AppendText(assistant_content[h], block)]
           /\ block_idx' = [block_idx EXCEPT ![h] = block_idx[h] + 1]
           /\ UNCHANGED <<pc, exc, tool_results, last_backend, dispatches, fed, time_off,
                          calendar>>
    /\ UNCHANGED <<conversation_store, now, event, conv_key, history, messages,
                   response, sweep_vars, nextId, nEvents, last_saved, program, clock_vars, got, stream_vars,
                   calls, rounds, out_vars>>

\* The end of a round appending the tool-result turn only.
RoundTurns_results_only(content, results) ==
    <<Message("user", ListContent(results))>>

\* messages.append({"role": "assistant", "content": assistant_content})
\* messages.append({"role": "user", "content": tool_results})
RoundTurns(content, results) ==
    <<Message("assistant", ListContent(content)), Message("user", ListContent(results))>>

\* The end of a round posting a new placeholder for the next round to edit.
EndRound_reposting(h) ==
    /\ pc[h] = "dispatch"
    /\ block_idx[h] > Len(response[h].content)
    /\ messages' = [messages EXCEPT ![h] =
           messages[h] \o RoundTurns(assistant_content[h], tool_results[h])]
    /\ response' = [response EXCEPT ![h] = NoResponse]
    /\ tool_results' = [tool_results EXCEPT ![h] = <<>>]
    /\ assistant_content' = [assistant_content EXCEPT ![h] = <<>>]
    /\ block_idx' = [block_idx EXCEPT ![h] = 0]
    /\ accumulated_text' = [accumulated_text EXCEPT ![h] = <<>>]
    /\ last_update_time' = [last_update_time EXCEPT ![h] = 0]
    /\ stream_opened' = [stream_opened EXCEPT ![h] = IF Streams(h) THEN elapsed ELSE 0]
    /\ placeholder_ts' = [placeholder_ts EXCEPT ![h] =
                            IF Streams(h) THEN post_placeholder(h) ELSE placeholder_ts[h]]
    /\ posted' = [posted EXCEPT ![h] =
                    IF Streams(h) THEN Append(posted[h], post_placeholder(h))
                    ELSE posted[h]]
    /\ placeholder' = [placeholder EXCEPT ![h] =
                         IF Streams(h) THEN Hourglass ELSE placeholder[h]]
    /\ pc' = [pc EXCEPT ![h] = "call"]
    /\ UNCHANGED <<conversation_store, now, event, conv_key, history, sweep_vars, exc,
                   nextId, nEvents, last_backend, last_saved, got, first_update,
                   edits, count_vars, reply, said, world_vars, clock_vars>>

\* After the for loop: append the assistant turn and the tool-result turn and
\* go round the while loop to the next completion call; the streaming loop
\* starts its round with accumulated_text = "" and last_update_time = 0 (the
\* values the blocking loop, which has no such locals, is modelled with).
EndRound(h) ==
    /\ pc[h] = "dispatch"
    /\ block_idx[h] > Len(response[h].content)
    /\ messages' = [messages EXCEPT ![h] =
           messages[h] \o RoundTurns(assistant_content[h], tool_results[h])]
    /\ response' = [response EXCEPT ![h] = NoResponse]
    /\ tool_results' = [tool_results EXCEPT ![h] = <<>>]
    /\ assistant_content' = [assistant_content EXCEPT ![h] = <<>>]
    /\ block_idx' = [block_idx EXCEPT ![h] = 0]
    /\ accumulated_text' = [accumulated_text EXCEPT ![h] = <<>>]
    /\ last_update_time' = [last_update_time EXCEPT ![h] = 0]
    /\ stream_opened' = [stream_opened EXCEPT ![h] = IF Streams(h) THEN elapsed ELSE 0]
    /\ pc' = [pc EXCEPT ![h] = "call"]
    /\ UNCHANGED <<conversation_store, now, event, conv_key, history, sweep_vars, exc,
                   nextId, nEvents, last_backend, last_saved, got, first_update,
                   edits, placeholder_ts, posted, count_vars, out_vars, world_vars,
                   clock_vars>>

(***************************************************************************)
(* The two loop functions as functions of what they are given: the event,  *)
(* the history, and the responses of the completion service, each with the *)
(* outcomes of the calls of process_tool_call made for it (items, as the   *)
(* variable fed records them).  Each returns the messages, the calls of    *)
(* process_tool_call it made, in order, and whether one of them raised.    *)
(***************************************************************************)
OutcomesOf(item) == [i \in 1..Len(item.dispatched) |-> item.dispatched[i].out]

\* chat_with_claude: for block in response.content
RECURSIVE blocking_for(_, _)
blocking_for(content, outs) ==
    IF content = <<>>
    THEN [raised |-> FALSE, tool_results |-> <<>>, assistant_content |-> <<>>,
          dispatched |-> <<>>]
    ELSE LET block == Head(content) IN
         IF block.type = "tool_use"
         THEN LET result == Head(outs)
                  call == [name |-> block.name, input |-> block.input]
              IN IF result.raised
                 THEN [raised |-> TRUE, tool_results |-> <<>>,
                       assistant_content |-> <<>>, dispatched |-> <<call>>]
                 ELSE LET rest == blocking_for(Tail(content), Tail(outs)) IN
                      [raised |-> rest.raised,
                       tool_results |->
                           <<ToolResultBlock(block.id, result.result)>> \o rest.tool_results,
                       assistant_content |-> <<block>> \o rest.assistant_content,
                       dispatched |-> <<call>> \o rest.dispatched]
         ELSE LET rest == blocking_for(Tail(content), outs) IN
              IF block.type = "text"
              THEN [rest EXCEPT !.assistant_content = <<block>> \o @]
              ELSE rest

\* chat_with_claude: while response.stop_reason == "tool_use", and the
\* statements after the loop.
RECURSIVE blocking_loop(_, _, _)
blocking_loop(msgs, items, done) ==
    LET r == Head(items).response IN
    IF r.stop_reason = "tool_use"
    THEN LET f == blocking_for(r.content, OutcomesOf(Head(items))) IN
         IF f.raised
         THEN [raised |-> TRUE, messages |-> <<>>, dispatched |-> done \o f.dispatched]
         ELSE blocking_loop(
                  msgs \o <<Message("assistant", ListContent(f.assistant_content)),
                            Message("user", ListContent(f.tool_results))>>,
                  Tail(items), done \o f.dispatched)
    ELSE [raised |-> FALSE,
          messages |-> Append(msgs, Message("assistant", ListContent(r.content))),
          dispatched |-> done]

\* chat_with_claude(user_message, user_info, ..., history)
chat_with_claude(ev, hist, items) ==
    blocking_loop(hist \o <<Message("user", ContextualMessage(ev))>>, items, <<>>)

\* chat_with_claude_streaming: for block in response.content
RECURSIVE streaming_for(_, _)
streaming_for(content, outs) ==
    IF content = <<>>
    THEN [raised |-> FALSE, tool_results |-> <<>>, assistant_content |-> <<>>,
          dispatched |-> <<>>]
    ELSE LET block == Head(content) IN
         IF block.type = "tool_use"
         THEN LET result == Head(outs)
                  call == [name |-> block.name, input |-> block.input]
              IN IF result.raised
                 THEN [raised |-> TRUE, tool_results |-> <<>>,
                       assistant_content |-> <<>>, dispatched |-> <<call>>]
                 ELSE LET rest == streaming_for(Tail(content), Tail(outs)) IN
                      [raised |-> rest.raised,
                       tool_results |->
                           <<ToolResultBlock(block.id, result.result)>> \o rest.tool_results,
                       assistant_content |-> <<block>> \o rest.assistant_content,
                       dispatched |-> <<call>> \o rest.dispatched]
         ELSE LET rest == streaming_for(Tail(content), outs) IN
              IF block.type = "text"
              THEN [rest EXCEPT !.assistant_content = <<block>> \o @]
              ELSE rest

\* The streaming loop keeping as its last turn the text it has shown in Slack.
streaming_final_turn_shown(r) ==
    Message("assistant", ListContent(<<TextBlock(format_for_slack(final_text(r.content)))>>))

\* {"role": "assistant", "content": response.content}, the last turn the
\* streaming loop appends.
streaming_final_turn(r) == Message("assistant", ListContent(r.content))

\* chat_with_claude_streaming: while True, the gated edits left out.
RECURSIVE streaming_loop(_, _, _)
streaming_loop(msgs, items, done) ==
    LET r == Head(items).response IN
    IF r.stop_reason = "tool_use"
    THEN LET f == streaming_for(r.content, OutcomesOf(Head(items))) IN
         IF f.raised
         THEN [raised |-> TRUE, messages |-> <<>>, dispatched |-> done \o f.dispatched]
         ELSE streaming_loop(
                  msgs \o <<Message("assistant", ListContent(f.assistant_content)),
                            Message("user", ListContent(f.tool_results))>>,
                  Tail(items), done \o f.dispatched)
    ELSE [raised |-> FALSE,
          messages |-> Append(msgs, streaming_final_turn(r)),
          dispatched |-> done]

\* chat_with_claude_streaming(user_message, user_info, ..., history)
chat_with_claude_streaming(ev, hist, items) ==
    streaming_loop(hist \o <<Message("user", ContextualMessage(ev))>>, items, <<>>)

(***************************************************************************)
(* The rest of the handlers: save_history, say, the except clauses, the    *)
(* sweep.                                                                  *)
(***************************************************************************)
\* save_history storing messages as given, without trim_history.
save_history_untrimmed(d, key, msgs, t) ==
    DictSet(d, key, [messages |-> msgs, last_activity |-> t])

\* save_history keeping the turns of the entry that messages does not hold.
save_history_merging(d, key, msgs, t) ==
    LET kept == IF key \in DOMAIN d
                THEN SelectSeq(d[key].messages,
                               LAMBDA m : \A i \in 1..Len(msgs) : msgs[i] # m)
                ELSE <<>>
    IN DictSet(d, key, [messages |-> trim_history(kept \o msgs, MAX_TURNS),
                        last_activity |-> t])

save_history(d, key, msgs, t) ==
    DictSet(d, key, [messages |-> trim_history(msgs, MAX_TURNS), last_activity |-> t])

\* save_history(conv_key, updated_history); src/app.py goes on to say(response).
Save(h) ==
    /\ pc[h] = "save"
    /\ conversation_store' = save_history(conversation_store, conv_key[h], messages[h], now)
    /\ last_saved' = DictSet(last_saved, conv_key[h],
                             [messages |-> messages[h], at |-> now, by |-> h])
    /\ pc' = [pc EXCEPT ![h] = IF program = "app" THEN "say" ELSE "sweep"]
    /\ UNCHANGED <<now, event, conv_key, history, loop_vars, sweep_vars, exc, nEvents,
                   got, stream_vars, count_vars, out_vars, world_vars, clock_vars>>

\* say(response), inside the try block: in the out-of-office handlers the
\* return statement is next, in src/app.py the sweep.  When say raises (ok is
\* false) the except clause is next.
Say(h, ok) ==
    /\ pc[h] = "say"
    /\ IF ~ok
       THEN /\ exc' = [exc EXCEPT ![h] = SlackApiError("say")]
            /\ pc' = [pc EXCEPT ![h] = "except"]
            /\ UNCHANGED said
       ELSE /\ said' = [said EXCEPT ![h] = Append(said[h], reply[h])]
            /\ pc' = [pc EXCEPT ![h] = IF IsOoo(event[h]) THEN "return" ELSE "sweep"]
            /\ UNCHANGED exc
    /\ UNCHANGED <<conversation_store, now, event, conv_key, history, loop_vars,
                   sweep_vars, nEvents, last_saved, got, stream_vars, count_vars,
                   reply, placeholder, world_vars, clock_vars>>

\* The text the except clause of a handler that calls chat_with_claude says:
\* the same for every exception.
apology(h) == IF IsOoo(event[h]) THEN RephraseText ELSE GenericErrorText

\* The except clause of the handlers that call chat_with_claude: say(apology).
\* In the out-of-office handlers the return statement is next, in src/app.py
\* the sweep.  When say raises (ok is false) the exception leaves the handler.
SayApology(h, ok) ==
    /\ pc[h] = "except"
    /\ ~Streams(h)
    /\ IF ~ok
       THEN /\ Return(h, SlackApiError("say"))
            /\ UNCHANGED nextId
       ELSE /\ said' = [said EXCEPT ![h] = Append(said[h], apology(h))]
            /\ pc' = [pc EXCEPT ![h] = IF IsOoo(event[h]) THEN "return" ELSE "sweep"]
            /\ UNCHANGED <<event, conv_key, history, loop_vars, sweep_vars, exc, got, stream_vars,
                           count_vars, reply, placeholder>>
    /\ UNCHANGED <<conversation_store, now, nEvents, last_saved, world_vars, clock_vars>>

\* The return statement of the out-of-office handlers, after say.
OooReturn(h) ==
    /\ pc[h] = "return"
    /\ Return(h, exc[h])
    /\ UNCHANGED <<conversation_store, now, nextId, nEvents, last_saved, world_vars,
                   clock_vars>>

\* The outcomes of the Slack calls of an except clause: chat_update works;
\* chat_update raises and say works; both raise.
SlackOutcomes == {"ok", "edit_fails", "down"}

\* The except clause with "except Exception: pass" around chat_update.
ExceptClause_no_fallback(h, slack) ==
    /\ pc[h] = "except"
    /\ Streams(h)
    /\ placeholder' = [placeholder EXCEPT ![h] =
           IF slack = "ok" THEN classify_api_error(exc[h]) ELSE placeholder[h]]
    /\ edits' = [edits EXCEPT ![h] =
           Append(edits[h], Edit("error", classify_api_error(exc[h]), slack = "ok",
                                 elapsed, calls[h], placeholder_ts[h]))]
    /\ pc' = [pc EXCEPT ![h] = "sweep"]
    /\ UNCHANGED <<event, conv_key, history, loop_vars, sweep_vars, exc, got,
                   accumulated_text, last_update_time, first_update,
                   stream_opened, placeholder_ts, posted, count_vars, reply, said>>
    /\ UNCHANGED <<conversation_store, now, nEvents, last_saved, world_vars, clock_vars>>

\* The except clause calling the completion service again.
ExceptClause_retrying(h, slack) ==
    /\ pc[h] = "except"
    /\ Streams(h)
    /\ pc' = [pc EXCEPT ![h] = "call"]
    /\ UNCHANGED <<event, conv_key, history, loop_vars, sweep_vars, exc, got, stream_vars,
                   count_vars, out_vars>>
    /\ UNCHANGED <<conversation_store, now, nEvents, last_saved, world_vars, clock_vars>>

\* except Exception as e (streaming handlers): error_msg = classify_api_error(e),
\* chat_update of the placeholder, say(error_msg) when chat_update raises.  An
\* exception of say leaves the handler.
ExceptClause(h, slack) ==
    /\ pc[h] = "except"
    /\ Streams(h)
    /\ IF slack = "down"
       THEN /\ Return(h, SlackApiError("say"))
            /\ UNCHANGED nextId
       ELSE /\ placeholder' = [placeholder EXCEPT ![h] =
                   IF slack = "ok" THEN classify_api_error(exc[h]) ELSE placeholder[h]]
            /\ said' = [said EXCEPT ![h] =
                   IF slack = "ok" THEN said[h]
                   ELSE Append(said[h], classify_api_error(exc[h]))]
            /\ edits' = [edits EXCEPT ![h] =
                   Append(edits[h], Edit("error", classify_api_error(exc[h]),
                                         slack = "ok", elapsed, calls[h],
                                         placeholder_ts[h]))]
            /\ pc' = [pc EXCEPT ![h] = "sweep"]
            /\ UNCHANGED <<event, conv_key, history, loop_vars, sweep_vars, exc, got,
                           accumulated_text, last_update_time, first_update,
                           stream_opened, placeholder_ts, posted, count_vars, reply>>
    /\ UNCHANGED <<conversation_store, now, nEvents, last_saved, world_vars, clock_vars>>

\* cleanup_stale_conversations: now = datetime.now(); stale = [...]
SweepScan(h) ==
    /\ pc[h] = "sweep"
    /\ stale' = [stale EXCEPT ![h] = StaleKeys(conversation_store, now)]
    /\ scan' = [scan EXCEPT ![h] = [now |-> now, store |-> conversation_store]]
    /\ pc' = [pc EXCEPT ![h] = "sweep_del"]
    /\ UNCHANGED <<conversation_store, now, event, conv_key, history, loop_vars,
                   exc, nEvents, last_saved, got, stream_vars, count_vars, out_vars, world_vars, clock_vars>>

\* for k in stale: del conversation_store[k]
SweepDel(h, k) ==
    /\ pc[h] = "sweep_del"
    /\ k \in stale[h]
    /\ IF k \notin DOMAIN conversation_store
       THEN /\ Return(h, KeyError("cleanup_stale_conversations"))
            /\ UNCHANGED <<conversation_store, now, nextId, nEvents, last_saved,
                           world_vars, clock_vars>>
       ELSE /\ conversation_store' = DictDel(conversation_store, k)
            /\ stale' = [stale EXCEPT ![h] = stale[h] \ {k}]
            /\ UNCHANGED <<now, pc, scan, event, conv_key, history, loop_vars, exc,
                           nEvents, last_saved, got, stream_vars, count_vars, out_vars, world_vars, clock_vars>>

\* The for loop is over: the handler returns.
SweepEnd(h) ==
    /\ pc[h] = "sweep_del"
    /\ stale[h] = {}
    /\ Return(h, exc[h])
    /\ UNCHANGED <<conversation_store, now, nextId, nEvents, last_saved, world_vars, clock_vars>>

\* Time passes.
Tick(d) ==
    /\ now + d <= MaxNow
    /\ now' = now + d
    /\ UNCHANGED <<conversation_store, pc, event, conv_key, history, loop_vars,
                   sweep_vars, exc, nEvents, last_saved, got, stream_vars, count_vars, out_vars,
                   world_vars, clock_vars>>

(***************************************************************************)
(* The inputs.                                                             *)
(***************************************************************************)
SqlCall == CallT("execute_sql", SqlFields)

\* An execute_sql call whose input lacks the field query.
SqlCallNoQuery == CallT("execute_sql", {"explanation"})

\* An insert_time_off call, complete or lacking the field slack_user_name.
OooCall == CallT("insert_time_off", OooFields)

OooCallNoName == CallT("insert_time_off", OooFields \ {"slack_user_name"})

\* A text with a Markdown bold span.
MdT == TextOf(<<"**", "b", "**">>)

\* A call of a tool that process_tool_call has no branch for.
UnknownCall == CallT("send_email", {"to"})

TimeShapes == {<<TextT>>, <<SqlCall>>, <<SqlCallNoQuery>>}

SeqShapes == {<<TextT>>, <<SqlCall>>, <<TextT, SqlCall, SqlCall>>}

ApiErrors == {"rate_limit", "overloaded", "api_error"}

\* SpecTime raises one kind of error; SpecLoop covers the three kinds.
TimeErrors == {"api_error"}

\* The responses to a request with query_tools and to one with ooo_tools.
QueryShapes ==
    {<<TextT>>, <<MdT>>, <<SqlCall>>, <<TextT, SqlCall>>, <<SqlCallNoQuery>>,
     <<UnknownCall>>, <<SqlCall, TextT, SqlCall>>}

OooShapes == {<<TextT>>, <<MdT>>, <<OooCall>>, <<OooCallNoName>>, <<UnknownCall>>}

LoopShapes(ev) == IF IsOoo(ev) THEN OooShapes ELSE QueryShapes

LoopEvents == {DmEvent("U1"), OooEvent("U1")}

\* The fragments of text_stream: a word of 10 characters, a blank and a word
\* of 29, a bold phrase of 40 between its marks.
FragmentTexts == {<<"w10">>, <<" ", "w29">>, <<"**", "w40", "**">>}

\* Tenths of a second between two fragments: half a second, or exactly
\* SLACK_UPDATE_INTERVAL.
FragmentDelays == {5, SLACK_UPDATE_INTERVAL}

\* Tenths of a second the wall clock is set back or forward by.
ClockSteps == {-20, 20}

\* stream.get_final_message(): the message holds the text that was streamed,
\* alone or before a tool call, or a tool call alone.
StreamedShapes(text) ==
    IF text = <<>> THEN {<<SqlCall>>}
    ELSE {<<TextOf(text)>>, <<TextOf(text), SqlCall>>}

StreamEvents == {DmEvent("U1")}

\* SpecStream's collaborators work.
StreamEnvs == {env \in Envs : ~env.db_fail /\ env.cal = "ok"}

TimeEvents == {DmEvent("U1")} \cup {MentionEvent("U1", c) : c \in Channels}

SeqEvents == {DmEvent("U1")}

RaceShapes == {<<TextT>>, <<SqlCall>>}

RaceEvents == {DmEvent(u) : u \in Users}

\* The channels of SpecKey; Slack identifiers are made of capitals and digits.
KeyChannels == {"C1", "C2"}

\* Direct messages and mentions of the two users.
KeyEvents ==
    {DmEvent(u) : u \in Users} \cup {MentionEvent(u, c) : u \in Users, c \in KeyChannels}

\* The pool hands an event to an idle thread; which one makes no difference,
\* so it is the first idle one.
FirstIdle(h) == pc[h] = "idle" /\ \A g \in Handlers : g < h => pc[g] # "idle"

\* The completion service may issue the tool calls of this shape.
CanIssue(shape, max) == nextId + NumCalls(shape) - 1 <= max

(***************************************************************************)
(* Spec: the handlers run on the threads of the listener pool.             *)
(***************************************************************************)
Next ==
    \/ \E h \in Handlers, ev \in RaceEvents :
          nEvents < MaxEvents /\ FirstIdle(h) /\ Receive(h, ev)
    \/ \E h \in Handlers : GetHistoryCheck(h)
    \/ \E h \in Handlers : GetHistoryEntry(h)
    \/ \E h \in Handlers : GetHistoryDel(h)
    \/ \E h \in Handlers : Prep(h)
    \/ \E h \in Handlers, shape \in RaceShapes : CanIssue(shape, MaxToolIds) /\ Complete(h, shape, TRUE)
    \/ \E h \in Handlers, env \in Envs : LoopBlock(h, env)
    \/ \E h \in Handlers : EndRound(h)
    \/ \E h \in Handlers : Save(h)
    \/ \E h \in Handlers : SweepScan(h)
    \/ \E h \in Handlers : \E k \in stale[h] : SweepDel(h, k)
    \/ \E h \in Handlers : SweepEnd(h)
    \/ \E d \in TickSteps : Tick(d)

Spec == Init /\ [][Next]_vars

(***************************************************************************)
(* SpecTime: one handler at a time, several keys, the clock.               *)
(***************************************************************************)
NextTime ==
    \/ \E ev \in TimeEvents : nEvents < MaxTimeEvents /\ Receive(1, ev)
    \/ GetHistoryCheck(1)
    \/ GetHistoryEntry(1)
    \/ GetHistoryDel(1)
    \/ Prep(1)
    \/ \E shape \in TimeShapes :
          CanIssue(shape, MaxTimeToolIds) /\ Complete(1, shape, TRUE)
    \/ \E err \in TimeErrors : CompleteRaise(1, err)
    \/ \E env \in Envs : LoopBlock(1, env)
    \/ EndRound(1)
    \/ Save(1)
    \/ \E slack \in SlackOutcomes : ExceptClause(1, slack)
    \/ SweepScan(1)
    \/ \E k \in stale[1] : SweepDel(1, k)
    \/ SweepEnd(1)
    \/ \E d \in TickSteps : Tick(d)

SpecTime == Init /\ [][NextTime]_vars

(***************************************************************************)
(* SpecSeq: one handler, one key, no clock: a long conversation.           *)
(***************************************************************************)
NextSeq ==
    \/ \E ev \in SeqEvents : nEvents < MaxSeqEvents /\ Receive(1, ev)
    \/ GetHistoryCheck(1)
    \/ GetHistoryEntry(1)
    \/ Prep(1)
    \/ \E shape \in SeqShapes : CanIssue(shape, MaxSeqToolIds) /\ Complete(1, shape, TRUE)
    \/ \E env \in Envs : LoopBlock(1, env)
    \/ EndRound(1)
    \/ Save(1)
    \/ SweepScan(1)
    \/ SweepEnd(1)

SpecSeq == Init /\ [][NextSeq]_vars

(***************************************************************************)
(* SpecRace: two handler threads and no clock: overlapping events.         *)
(***************************************************************************)
NextRace ==
    \/ \E h \in Handlers, ev \in RaceEvents :
          nEvents < MaxRaceEvents /\ FirstIdle(h) /\ Receive(h, ev)
    \/ \E h \in Handlers : GetHistoryCheck(h)
    \/ \E h \in Handlers : GetHistoryEntry(h)
    \/ \E h \in Handlers : Prep(h)
    \/ \E h \in Handlers, shape \in RaceShapes : CanIssue(shape, MaxRaceToolIds) /\ Complete(h, shape, TRUE)
    \/ \E h \in Handlers, env \in Envs : LoopBlock(h, env)
    \/ \E h \in Handlers : EndRound(h)
    \/ \E h \in Handlers : Save(h)
    \/ \E h \in Handlers : SweepScan(h)
    \/ \E h \in Handlers : SweepEnd(h)

SpecRace == Init /\ [][NextRace]_vars

(***************************************************************************)
(* SpecLoop: one handler of either program, a direct-message key and the   *)
(* out-of-office channel, no clock: the two agent loops and the handlers'  *)
(* tails.                                                                  *)
(***************************************************************************)
InitLoop == \E p \in Programs : InitOf(p)

NextLoop ==
    \/ \E ev \in LoopEvents : nEvents < MaxLoopEvents /\ Receive(1, ev)
    \/ GetHistoryCheck(1)
    \/ GetHistoryEntry(1)
    \/ Prep(1)
    \/ \E shape \in LoopShapes(event[1]), edit_ok \in BOOLEAN :
          CanIssue(shape, MaxLoopToolIds) /\ Complete(1, shape, edit_ok)
    \/ \E err \in ApiErrors : CompleteRaise(1, err)
    \/ \E env \in Envs : LoopBlock(1, env)
    \/ EndRound(1)
    \/ Save(1)
    \/ \E ok \in BOOLEAN : Say(1, ok)
    \/ \E ok \in BOOLEAN : SayApology(1, ok)
    \/ OooReturn(1)
    \/ \E slack \in SlackOutcomes : ExceptClause(1, slack)
    \/ SweepScan(1)
    \/ SweepEnd(1)

SpecLoop == InitLoop /\ [][NextLoop]_vars

(***************************************************************************)
(* SpecKey: two handler threads, events of two users in direct messages    *)
(* and in two channels, each answered with a text: the session keys.       *)
(***************************************************************************)
NextKey ==
    \/ \E h \in Handlers, ev \in KeyEvents :
          nEvents < MaxKeyEvents /\ FirstIdle(h) /\ Receive(h, ev)
    \/ \E h \in Handlers : GetHistoryCheck(h)
    \/ \E h \in Handlers : GetHistoryEntry(h)
    \/ \E h \in Handlers : Prep(h)
    \/ \E h \in Handlers : Complete(h, <<TextT>>, TRUE)
    \/ \E h \in Handlers : Save(h)
    \/ \E h \in Handlers : SweepScan(h)
    \/ \E h \in Handlers : SweepEnd(h)

SpecKey == Init /\ [][NextKey]_vars

(***************************************************************************)
(* SpecStream: one handler of src/yuri-bot.py, direct messages, the        *)
(* fragments of the stream and the two clocks: the gated edits of the      *)
(* placeholder.  The completion service and the collaborators work; their  *)
(* failures are SpecLoop's and SpecTime's.                                 *)
(***************************************************************************)
NextStream ==
    \/ \E ev \in StreamEvents : nEvents < MaxStreamEvents /\ Receive(1, ev)
    \/ GetHistoryCheck(1)
    \/ GetHistoryEntry(1)
    \/ Prep(1)
    \/ \E text \in FragmentTexts, dt \in FragmentDelays, edit_ok \in BOOLEAN :
          fragments < MaxFragments /\ Fragment(1, text, dt, edit_ok)
    \/ \E d \in ClockSteps : ClockAdjust(d)
    \/ \E shape \in StreamedShapes(accumulated_text[1]), edit_ok \in BOOLEAN :
          CanIssue(shape, MaxStreamToolIds) /\ Complete(1, shape, edit_ok)
    \/ \E env \in StreamEnvs : LoopBlock(1, env)
    \/ EndRound(1)
    \/ Save(1)
    \/ SweepScan(1)
    \/ SweepEnd(1)

SpecStream == Init /\ [][NextStream]_vars

(***************************************************************************)
(* Vocabulary of the properties.                                           *)
(***************************************************************************)
Range(f) == {f[i] : i \in DOMAIN f}

Min(a, b) == IF a <= b THEN a ELSE b

\* A user-turn that starts an exchange: from the human, not a tool-result turn.
IsUserTurn(m) == m.role = "user" /\ m.content.kind = "str"

IsToolResultTurn(m) ==
    /\ m.role = "user"
    /\ m.content.kind = "list"
    /\ \E i \in 1..Len(m.content.blocks) : m.content.blocks[i].type = "tool_result"

HasToolCalls(m) ==
    /\ m.role = "assistant"
    /\ \E i \in 1..Len(m.content.blocks) : m.content.blocks[i].type = "tool_use"

\* The call identifiers an assistant turn requests, in order.
CallIds(m) ==
    LET uses == SelectSeq(m.content.blocks, LAMBDA b : b.type = "tool_use")
    IN [i \in 1..Len(uses) |-> uses[i].id]

\* The call identifiers a tool-result turn answers, in order.
AnsweredIds(m) == [i \in 1..Len(m.content.blocks) |-> m.content.blocks[i].tool_use_id]

\* The number of exchanges that start in a sequence of turns.
NumExchanges(s) == Cardinality({i \in 1..Len(s) : IsUserTurn(s[i])})

\* The texts of the human's messages in a sequence of turns.
UserTexts(s) == {s[i].content.text.message : i \in {j \in 1..Len(s) : IsUserTurn(s[j])}}

IsSuffix(s, t) ==
    /\ Len(s) <= Len(t)
    /\ SubSeq(t, Len(t) - Len(s) + 1, Len(t)) = s

Stored(k) == conversation_store[k].messages

(***************************************************************************)
(* C1.  In every reachable state of the store, every tool-result turn of a *)
(* stored sequence comes right after the assistant turn whose tool calls   *)
(* it answers, and every stored assistant turn with tool calls is followed *)
(* at once by its tool-result turn.  (SpecSeq)                             *)
(***************************************************************************)
Paired(s) ==
    \A i \in 1..Len(s) :
        /\ IsToolResultTurn(s[i]) =>
              /\ i > 1
              /\ HasToolCalls(s[i - 1])
              /\ CallIds(s[i - 1]) = AnsweredIds(s[i])
        /\ HasToolCalls(s[i]) =>
              /\ i < Len(s)
              /\ IsToolResultTurn(s[i + 1])
              /\ CallIds(s[i]) = AnsweredIds(s[i + 1])

C1_ToolTurnsPaired ==
    \A k \in DOMAIN conversation_store : Paired(Stored(k))

\* A stored sequence that trim_history has cut, whose first kept exchange has
\* a tool round.
C1_Witness ==
    \E k \in DOMAIN conversation_store :
        /\ Len(Stored(k)) < Len(last_saved[k].messages)
        /\ Len(Stored(k)) >= 3
        /\ HasToolCalls(Stored(k)[2])
        /\ IsToolResultTurn(Stored(k)[3])

(***************************************************************************)
(* C2.  After save(key, turns) the stored sequence holds exactly           *)
(* min(b, MAX_TURNS) exchange boundaries, b being the boundaries of turns, *)
(* and begins at a user-turn that is no tool-result turn; so no entry      *)
(* holds more than MAX_TURNS exchanges.  (SpecSeq)                         *)
(***************************************************************************)
C2_SaveKeepsMinExchanges ==
    \A k \in DOMAIN conversation_store :
        /\ NumExchanges(Stored(k)) =
              Min(NumExchanges(last_saved[k].messages), MAX_TURNS)
        /\ Stored(k) # <<>>
        /\ IsUserTurn(Stored(k)[1])
        /\ NumExchanges(Stored(k)) <= MAX_TURNS

\* A save of more than MAX_TURNS exchanges has been cut down to MAX_TURNS.
C2_Witness ==
    \E k \in DOMAIN conversation_store :
        /\ NumExchanges(last_saved[k].messages) = MAX_TURNS + 1
        /\ NumExchanges(Stored(k)) = MAX_TURNS

(***************************************************************************)
(* C3.  When a sequence of more than MAX_TURNS exchanges was saved, the    *)
(* following get returns exactly the turns of its last MAX_TURNS           *)
(* exchanges, complete and in order, and no turn of an earlier exchange.   *)
(* (SpecSeq)                                                               *)
(***************************************************************************)
\* The n largest elements of a set of numbers.
Largest(S, n) == {x \in S : Cardinality({y \in S : y > x}) < n}

C3_GetReturnsLastExchanges ==
    \A h \in Handlers :
        (/\ pc[h] = "prep"
         /\ conv_key[h] \in DOMAIN last_saved
         /\ NumExchanges(last_saved[conv_key[h]].messages) > MAX_TURNS)
        => LET t == last_saved[conv_key[h]].messages IN
           /\ IsSuffix(history[h], t)
           /\ history[h] # <<>>
           /\ IsUserTurn(history[h][1])
           /\ NumExchanges(history[h]) = MAX_TURNS
           /\ UserTexts(history[h]) = Largest(UserTexts(t), MAX_TURNS)

\* Eleven exchanges were saved, the first of them with a tool round; the get
\* that follows returns the exchanges 2 to 11.
C3_Witness ==
    \E h \in Handlers :
        /\ pc[h] = "prep"
        /\ conv_key[h] \in DOMAIN last_saved
        /\ LET t == last_saved[conv_key[h]].messages IN
           /\ UserTexts(t) = 1..(MAX_TURNS + 1)
           /\ IsToolResultTurn(t[3])
           /\ UserTexts(history[h]) = 2..(MAX_TURNS + 1)

(***************************************************************************)
(* C4.  get(key) returns the empty sequence when the key is absent; when   *)
(* the entry's last_activity is more than HISTORY_TTL_MINUTES in the past  *)
(* it returns the empty sequence and removes the key; otherwise it returns *)
(* the stored sequence.  Stated of the step in which get_history returns,  *)
(* with one handler running.  (SpecTime)                                   *)
(***************************************************************************)
InGet(h) == pc[h] \in {"get", "get_entry", "get_del"}

C4_GetStep ==
    \A h \in Handlers :
        LET k == conv_key[h] IN
        /\ (InGet(h) /\ pc'[h] = "prep") =>
              IF k \notin DOMAIN conversation_store
              THEN /\ history'[h] = <<>>
                   /\ conversation_store' = conversation_store
              ELSE IF now - conversation_store[k].last_activity > HISTORY_TTL_MINUTES
              THEN /\ history'[h] = <<>>
                   /\ DOMAIN conversation_store' = (DOMAIN conversation_store) \ {k}
                   /\ \A j \in DOMAIN conversation_store' :
                         conversation_store'[j] = conversation_store[j]
              ELSE /\ history'[h] = conversation_store[k].messages
                   /\ conversation_store' = conversation_store
        /\ InGet(h) => (InGet(h)' \/ pc'[h] = "prep")

C4_GetContract == [][C4_GetStep]_vars

\* get_history has just returned the empty sequence for a key whose entry was
\* idle for more than 30 and at most 60 minutes, and the entry is gone.
C4_Witness ==
    \E h \in Handlers :
        /\ pc[h] = "prep"
        /\ history[h] = <<>>
        /\ conv_key[h] \notin DOMAIN conversation_store
        /\ conv_key[h] \in DOMAIN last_saved
        /\ now - last_saved[conv_key[h]].at > HISTORY_TTL_MINUTES
        /\ now - last_saved[conv_key[h]].at <= 2 * HISTORY_TTL_MINUTES

(***************************************************************************)
(* C5.  sweep removes exactly the entries whose last_activity is more than *)
(* 2 x HISTORY_TTL_MINUTES in the past and leaves every other entry, its   *)
(* turns and its last_activity, unchanged.  With one handler running.      *)
(* (SpecTime)                                                              *)
(***************************************************************************)
C5_SweepRemovesExactlyStale ==
    \A h \in Handlers :
        pc[h] = "sweep_del" =>
            LET pre == scan[h].store
                idle(k) == scan[h].now - pre[k].last_activity
            IN
            /\ DOMAIN conversation_store \subseteq DOMAIN pre
            /\ \A k \in DOMAIN pre :
                  idle(k) <= 2 * HISTORY_TTL_MINUTES =>
                      /\ k \in DOMAIN conversation_store
                      /\ conversation_store[k] = pre[k]
            /\ stale[h] = {} =>
                  \A k \in DOMAIN pre :
                      idle(k) > 2 * HISTORY_TTL_MINUTES => k \notin DOMAIN conversation_store

\* The for loop of a sweep is over: one entry is gone, another one, idle for
\* HISTORY_TTL_MINUTES or more, is still there.
C5_Witness ==
    \E h \in Handlers :
        /\ pc[h] = "sweep_del"
        /\ stale[h] = {}
        /\ \E k1, k2 \in DOMAIN scan[h].store :
              /\ k1 \notin DOMAIN conversation_store
              /\ k2 \in DOMAIN conversation_store
              /\ scan[h].now - scan[h].store[k2].last_activity >= HISTORY_TTL_MINUTES

(***************************************************************************)
(* C6.  save(key, s) followed at once by get(key) returns a sequence       *)
(* identical to s whenever s holds at most MAX_TURNS exchanges.  (SpecSeq) *)
(***************************************************************************)
C6_SaveGetRoundTrip ==
    \A h \in Handlers :
        (/\ pc[h] = "prep"
         /\ conv_key[h] \in DOMAIN last_saved
         /\ last_saved[conv_key[h]].at = now
         /\ NumExchanges(last_saved[conv_key[h]].messages) <= MAX_TURNS)
        => history[h] = last_saved[conv_key[h]].messages

\* The sequence saved was a user-turn, one tool-call/tool-result round and a
\* final assistant-turn, and get_history has returned it.
C6_Witness ==
    \E h \in Handlers :
        /\ pc[h] = "prep"
        /\ conv_key[h] \in DOMAIN last_saved
        /\ LET s == last_saved[conv_key[h]].messages IN
           /\ Len(s) = 4
           /\ IsUserTurn(s[1])
           /\ HasToolCalls(s[2])
           /\ IsToolResultTurn(s[3])
           /\ s[4].role = "assistant" /\ ~HasToolCalls(s[4])
           /\ history[h] = s

(***************************************************************************)
(* C7.  With handlers for different session keys running concurrently, no  *)
(* interleaving of one handler's get, save and sweep with the operations   *)
(* of another handler alters or removes the entry stored under the other   *)
(* handler's key while that entry is not idle beyond the sweep threshold.  *)
(* Stated of every step: an entry idle for at most 2 x HISTORY_TTL_MINUTES *)
(* changes or disappears only in a step of a handler of its own key.       *)
(* (Spec)                                                                  *)
(***************************************************************************)
\* The step is one of handler h.
Acting(h) == pc'[h] # pc[h] \/ stale'[h] # stale[h]

C7_Step ==
    \A k \in DOMAIN conversation_store :
        (/\ now - conversation_store[k].last_activity <= 2 * HISTORY_TTL_MINUTES
         /\ \/ k \notin DOMAIN conversation_store'
            \/ conversation_store'[k] # conversation_store[k])
        => \E h \in Handlers : Acting(h) /\ conv_key[h] = k

C7_OtherKeysUntouched == [][C7_Step]_vars

(***************************************************************************)
(* C8.  When two handlers for the same session key overlap, the sequence   *)
(* stored once both have saved is exactly the (trimmed) sequence passed to *)
(* whichever save executed last; the turns the other handler appended are  *)
(* not merged into it.  (SpecRace)                                         *)
(***************************************************************************)
C8_LastSaveWins ==
    \A k \in DOMAIN conversation_store :
        LET t == last_saved[k].messages IN
        /\ IsSuffix(Stored(k), t)
        /\ NumExchanges(t) <= MAX_TURNS => Stored(k) = t
        /\ \A g \in Handlers :
              (/\ conv_key[g] = k
               /\ pc[g] \in {"sweep", "sweep_del"}
               /\ event[g].text \notin UserTexts(t))
              => event[g].text \notin UserTexts(Stored(k))

\* Two handlers of one key have both saved; the entry holds the message of the
\* one that saved last and not the message of the other.
C8_Witness ==
    \E g, h \in Handlers :
        /\ g # h
        /\ conv_key[g] = conv_key[h]
        /\ pc[g] \in {"sweep", "sweep_del"}
        /\ pc[h] \in {"sweep", "sweep_del"}
        /\ exc[g] = NoExc
        /\ conv_key[h] \in DOMAIN conversation_store
        /\ last_saved[conv_key[h]].by = h
        /\ event[h].text \in UserTexts(Stored(conv_key[h]))
        /\ event[g].text \notin UserTexts(Stored(conv_key[h]))

(***************************************************************************)
(* C9.  For every tool name and every argument mapping the model can emit, *)
(* also one that lacks an expected field, dispatch returns a structured    *)
(* result and never raises into the agent loop: no handler is ever in its  *)
(* except clause with an exception that left process_tool_call.            *)
(* (SpecTime)                                                              *)
(***************************************************************************)
C9_DispatchNeverRaises ==
    \A h \in Handlers :
        ~(pc[h] = "except" /\ exc[h].origin = "process_tool_call")

(***************************************************************************)
(* C10.  A failure of the query backend in execute_sql does not end the    *)
(* agent loop: it becomes a result with success false and an error string, *)
(* the result is placed in the tool-result turn, and the loop goes on to   *)
(* the next completion call.  (SpecTime)                                   *)
(***************************************************************************)
IsFailure(result) ==
    /\ result.success = FALSE
    /\ "error" \in DOMAIN result
    /\ result.error = "Database error"

Dispatching(h) == dispatches'[h] = dispatches[h] + 1

\* The result the dispatch of the step has appended to tool_results.
NewResult(h) == tool_results'[h][Len(tool_results'[h])].content

C11_Step ==
    \A h \in Handlers :
        (Dispatching(h) /\ last_backend'[h] = "written_calendar_failed") =>
            /\ Len(tool_results'[h]) = Len(tool_results[h]) + 1
            /\ NewResult(h).success = TRUE
            /\ NewResult(h).calendar_event_created = FALSE
            /\ time_off' = time_off + 1
            /\ calendar' = calendar

C11_CalendarFailureDegrades == [][C11_Step]_vars

\* The calendar has failed in a dispatch: the round's tool-result turn reports
\* success without a calendar event, one row is written, no event exists.
C11_Witness ==
    \E h \in Handlers :
        /\ last_backend[h] = "written_calendar_failed"
        /\ pc[h] = "call"
        /\ time_off = 1
        /\ calendar = 0
        /\ LET last == messages[h][Len(messages[h])] IN
           /\ IsToolResultTurn(last)
           /\ last.content.blocks[1].content.success = TRUE
           /\ last.content.blocks[1].content.calendar_event_created = FALSE

(***************************************************************************)
(* C12.  When the persistence write of insert_time_off fails, the          *)
(* dispatcher's result for that call has success false and an error        *)
(* string.  Stated of the step that dispatches the call.  (SpecLoop)       *)
(***************************************************************************)
C12_Step ==
    \A h \in Handlers :
        (Dispatching(h) /\ last_backend'[h] = "write_error") =>
            /\ Len(tool_results'[h]) = Len(tool_results[h]) + 1
            /\ NewResult(h).success = FALSE
            /\ "error" \in DOMAIN NewResult(h)
            /\ NewResult(h).error = "Database error"
            /\ time_off' = time_off

C12_WriteFailureFailsCall == [][C12_Step]_vars

\* The write has failed in a dispatch: the round's tool-result turn holds the
\* failure and no row has been written.
C12_Witness ==
    \E h \in Handlers :
        /\ last_backend[h] = "write_error"
        /\ pc[h] = "call"
        /\ time_off = 0
        /\ LET last == messages[h][Len(messages[h])] IN
           /\ IsToolResultTurn(last)
           /\ last.content.blocks[1].content.success = FALSE
           /\ last.content.blocks[1].content.error = "Database error"

(***************************************************************************)
(* C13.  For each tool-use response exactly one tool-result turn is        *)
(* appended; it holds exactly one result per tool-call block of the        *)
(* response, in the order of the tool-call blocks, and each result carries *)
(* the call identifier of the tool call it answers.  Stated of the step in *)
(* which a handler leaves the for loop over the blocks of a tool-use       *)
(* response.  (SpecLoop)                                                   *)
(***************************************************************************)
\* The call identifiers of the tool-call blocks of a response, in order.
ResponseCallIds(r) ==
    LET uses == SelectSeq(r.content, LAMBDA b : b.type = "tool_use")
    IN [i \in 1..Len(uses) |-> uses[i].id]

\* The turns the step has appended to messages of handler h.
Appended(h) == SubSeq(messages'[h], Len(messages[h]) + 1, Len(messages'[h]))

C13_Step ==
    \A h \in Handlers :
        (pc[h] = "dispatch" /\ pc'[h] # "dispatch") =>
            /\ Len(messages'[h]) >= Len(messages[h])
            /\ SubSeq(messages'[h], 1, Len(messages[h])) = messages[h]
            /\ Cardinality({i \in 1..Len(Appended(h)) :
                               IsToolResultTurn(Appended(h)[i])}) = 1
            /\ LET t == Appended(h)[Len(Appended(h))] IN
               /\ IsToolResultTurn(t)
               /\ \A i \in 1..Len(t.content.blocks) :
                     t.content.blocks[i].type = "tool_result"
               /\ AnsweredIds(t) = ResponseCallIds(response[h])

C13_OneResultTurnPerResponse == [][C13_Step]_vars

(***************************************************************************)
(* C14.  For a tool-use response, the assistant turn appended to the       *)
(* history is the response content verbatim: every content block of the    *)
(* response, in its original order, the tool-call blocks included.  Stated *)
(* of the step that appends the turns of a round.  (SpecLoop)              *)
(***************************************************************************)
C14_Step ==
    \A h \in Handlers :
        (pc[h] = "dispatch" /\ pc'[h] = "call") =>
            /\ Len(messages'[h]) = Len(messages[h]) + 2
            /\ messages'[h][Len(messages[h]) + 1] =
                  Message("assistant", ListContent(response[h].content))

C14_AssistantTurnVerbatim == [][C14_Step]_vars

\* A round has ended whose response held a text block before its tool call:
\* the assistant turn in messages holds both, in that order.
C14_Witness ==
    \E h \in Handlers :
        /\ pc[h] = "call"
        /\ rounds[h] >= 1
        /\ LET a == messages[h][Len(messages[h]) - 1] IN
           /\ a.role = "assistant"
           /\ Len(a.content.blocks) = 2
           /\ a.content.blocks[1].type = "text"
           /\ a.content.blocks[2].type = "tool_use"

(***************************************************************************)
(* C15.  Starting from a history of n turns, a run of the agent loop with  *)
(* k tool-use responses followed by a terminal response makes exactly      *)
(* k + 1 completion calls and returns a history of n + 2k + 2 turns: the n *)
(* prior turns, the new user-turn, k pairs of an assistant turn with tool  *)
(* calls and a tool-result turn, the final assistant-turn.  With an empty  *)
(* history and one round the history has 4 turns.  Stated of the states in *)
(* which the loop function has returned.  (SpecLoop)                       *)
(***************************************************************************)
\* The loop function of handler h has returned its reply and messages.
LoopReturned(h) == reply[h] # NoReply /\ pc[h] \in {"save", "say"}

\* The turns get_history gave the handler.
Prior(h) == IF got[h] = <<>> THEN <<>> ELSE got[h][1].messages

C15_LoopShape ==
    \A h \in Handlers :
        LoopReturned(h) =>
            LET n == Len(Prior(h))
                k == rounds[h]
                m == messages[h]
            IN
            /\ calls[h] = k + 1
            /\ Len(m) = n + 2 * k + 2
            /\ SubSeq(m, 1, n) = Prior(h)
            /\ m[n + 1] = Message("user", ContextualMessage(event[h]))
            /\ \A i \in 1..k :
                  /\ HasToolCalls(m[n + 2 * i])
                  /\ IsToolResultTurn(m[n + 2 * i + 1])
            /\ m[Len(m)].role = "assistant"
            /\ ~HasToolCalls(m[Len(m)])
            /\ (n = 0 /\ k = 1) => Len(m) = 4

\* The loop has returned after one round on a history that was not empty.
C15_Witness ==
    \E h \in Handlers :
        /\ LoopReturned(h)
        /\ Len(Prior(h)) >= 2
        /\ rounds[h] = 1
        /\ calls[h] = 2
        /\ Len(messages[h]) = Len(Prior(h)) + 4

(***************************************************************************)
(* C16.  On a response that is not tool-use the agent loop appends it as   *)
(* the last turn of the history, returns as reply the concatenation of the *)
(* response's text segments in order, and makes no completion call and no  *)
(* tool dispatch afterwards.                                               *)
(*                                                                         *)
(* As amended: the reply is that concatenation in                          *)
(* chat_with_claude_streaming and in chat_with_claude of src/app.py, and   *)
(* format_for_slack of that concatenation in chat_with_claude of           *)
(* src/yuri-bot.py.  (SpecLoop)                                            *)
(***************************************************************************)
\* The step in which the loop function of handler h returns.
ReachesTerminal(h) == reply[h] = NoReply /\ reply'[h] # NoReply

\* The step appends the response as the last turn and returns expected; once
\* the loop has returned, no step of the event calls the completion service,
\* dispatches a tool or touches messages.
TerminalStep(h, expected) ==
    /\ ReachesTerminal(h) =>
          /\ response'[h].stop_reason # "tool_use"
          /\ messages'[h] =
                Append(messages[h], Message("assistant", ListContent(response'[h].content)))
          /\ reply'[h] = expected
    /\ (reply[h] # NoReply /\ reply'[h] # NoReply) =>
          /\ calls'[h] = calls[h]
          /\ dispatches'[h] = dispatches[h]
          /\ messages'[h] = messages[h]
          /\ reply'[h] = reply[h]

\* The claim as it stands: the reply is the concatenation.
C16_ReplyIsConcatenation ==
    [][\A h \in Handlers : TerminalStep(h, final_text(response'[h].content))]_vars

\* The claim as amended.
C16_TerminalAbsorbing ==
    [][\A h \in Handlers :
          TerminalStep(h, IF program = "yuri-bot" /\ IsOoo(event[h])
                          THEN format_for_slack(final_text(response'[h].content))
                          ELSE final_text(response'[h].content))]_vars

\* chat_with_claude of src/yuri-bot.py has returned on a response whose text
\* holds a Markdown bold span: the reply holds the Slack bold marks.
C16_Witness ==
    \E h \in Handlers :
        /\ program = "yuri-bot"
        /\ IsOoo(event[h])
        /\ pc[h] = "say"
        /\ final_text(response[h].content) = <<"**", "b", "**">>
        /\ reply[h] = <<"*", "b", "*">>
        /\ messages[h][Len(messages[h])] =
              Message("assistant", ListContent(response[h].content))

(***************************************************************************)
(* C17.  The agent loop enforces no round limit: every tool-use response   *)
(* is followed by another completion call, so that the loop ends only on a *)
(* response that is not tool-use.  Stated of every step of a handler that  *)
(* is in the for loop over the blocks of a tool-use response: it stays in  *)
(* the for loop or goes to the next completion call.  (SpecLoop)           *)
(***************************************************************************)
C17_Step ==
    \A h \in Handlers :
        pc[h] = "dispatch" => pc'[h] \in {"dispatch", "call"}

C17_EveryToolUseFollowedByCall == [][C17_Step]_vars

(***************************************************************************)
(* C18.  When a call of the completion service raises during an event,     *)
(* save_history is not called for that event: until the event's sweep the  *)
(* entry under the event's session key is exactly what the event's         *)
(* get_history left, and no turn built in the aborted loop is stored.      *)
(* (SpecLoop)                                                              *)
(***************************************************************************)
\* The loop of handler h was aborted by the completion service; the handler
\* is in its except clause or about to sweep.
Aborted(h) ==
    /\ exc[h].origin = "anthropic"
    /\ pc[h] \in {"except", "sweep"}

C18_AbortPersistsNothing ==
    \A h \in Handlers :
        (Aborted(h) /\ ~IsOoo(event[h])) =>
            LET k == conv_key[h] IN
            /\ got[h] = <<>> => k \notin DOMAIN conversation_store
            /\ got[h] # <<>> =>
                  /\ k \in DOMAIN conversation_store
                  /\ conversation_store[k] = got[h][1]
            /\ k \in DOMAIN last_saved =>
                  event[h].text \notin UserTexts(last_saved[k].messages)
            /\ k \in DOMAIN conversation_store =>
                  event[h].text \notin UserTexts(Stored(k))

\* The completion service raised after a tool round, on a history that was not
\* empty; the except clause is over and the entry is the one get_history saw.
C18_Witness ==
    \E h \in Handlers :
        /\ Aborted(h)
        /\ pc[h] = "sweep"
        /\ rounds[h] >= 1
        /\ Len(messages[h]) >= 5
        /\ got[h] # <<>>
        /\ conversation_store[conv_key[h]] = got[h][1]

(***************************************************************************)
(* C19.  In the streaming flow, when the loop aborts on an error of the    *)
(* completion service, the event's placeholder message is edited in place  *)
(* to show the user-facing error text.                                     *)
(*                                                                         *)
(* As amended: the handler edits the placeholder to the error text; when   *)
(* that edit fails the placeholder keeps its text and the handler posts    *)
(* the error text as a new message with say, whose failure leaves the      *)
(* handler as an exception.  (SpecLoop)                                    *)
(***************************************************************************)
\* The claim as it stands.
C19_PlaceholderShowsError ==
    \A h \in Handlers :
        (Streams(h) /\ pc[h] = "sweep" /\ exc[h].origin = "anthropic") =>
            placeholder[h] = classify_api_error(exc[h])

\* The claim as amended, of the step that leaves the except clause.
C19_Step ==
    \A h \in Handlers :
        (Streams(h) /\ pc[h] = "except" /\ exc[h].origin = "anthropic"
                    /\ pc'[h] # "except") =>
            LET error_msg == classify_api_error(exc[h]) IN
            \/ /\ pc'[h] = "sweep"
               /\ placeholder'[h] = error_msg
               /\ said'[h] = said[h]
            \/ /\ pc'[h] = "sweep"
               /\ placeholder'[h] = placeholder[h]
               /\ said'[h] = Append(said[h], error_msg)
            \/ /\ pc'[h] = "idle"
               /\ exc'[h] = SlackApiError("say")

C19_ErrorEditedOrSaid == [][C19_Step]_vars

\* The completion service was overloaded; the placeholder, which showed the
\* hourglass, shows the capacity message.
C19_Witness ==
    \E h \in Handlers :
        /\ Streams(h)
        /\ pc[h] = "sweep"
        /\ exc[h] = [type |-> "overloaded", origin |-> "anthropic"]
        /\ placeholder[h] = CapacityText
        /\ said[h] = <<>>

(***************************************************************************)
(* C20.  After a call of the completion service has raised, the handler    *)
(* makes no further completion call and no further tool dispatch for that  *)
(* event: the loop aborts at once and nothing is retried.  (SpecLoop)      *)
(***************************************************************************)
C20_Step ==
    \A h \in Handlers :
        /\ (exc[h].origin = "anthropic" /\ event[h] # NoEvent) =>
              /\ calls'[h] = calls[h] \/ pc'[h] = "idle"
              /\ dispatches'[h] = dispatches[h] \/ pc'[h] = "idle"
              /\ pc'[h] \notin {"call", "dispatch"}
        /\ (pc[h] = "call" /\ exc'[h].origin = "anthropic") => pc'[h] = "except"

C20_NoRetryAfterRaise == [][C20_Step]_vars

\* The second completion call of an event raised, after a tool round; the
\* handler is past its except clause with two calls and one dispatch made.
C20_Witness ==
    \E h \in Handlers :
        /\ exc[h].origin = "anthropic"
        /\ pc[h] = "sweep"
        /\ calls[h] = 2
        /\ dispatches[h] = 1

(***************************************************************************)
(* C21.  Every failure of the completion service is classified into        *)
(* exactly one of three classes (rate limit, capacity, generic); each      *)
(* class has its own fixed user-facing message, and the same error always  *)
(* gets the same message.  (SpecLoop)                                      *)
(***************************************************************************)
ClassMessages == {RateLimitText, CapacityText, GenericErrorText}

\* The text the handler h tells the user in this step: the one it says, or
\* the one the placeholder now shows.
Told(h) ==
    IF Len(said'[h]) > Len(said[h]) THEN said'[h][Len(said'[h])]
    ELSE placeholder'[h]

\* The step of an except clause that tells the user of an exception of the
\* completion service tells the message of the error's class.
C21_Step ==
    \A h \in Handlers :
        (pc[h] = "except" /\ exc[h].origin = "anthropic"
                          /\ pc'[h] \in {"sweep", "return"}) =>
            /\ Cardinality(ClassMessages) = 3
            /\ Told(h) \in ClassMessages
            /\ program = "yuri-bot" => Told(h) = classify_api_error(exc[h])

C21_FailureGetsClassMessage == [][C21_Step]_vars

(***************************************************************************)
(* C22.  Within one handled event, every gated (non-final) edit of the     *)
(* placeholder is issued at least SLACK_UPDATE_INTERVAL after the edit of   *)
(* that placeholder issued before it, whether that one was issued in the   *)
(* same completion round or in an earlier tool-use round.  Stated for the  *)
(* runs in which the wall clock is never set.  (SpecStream)                *)
(***************************************************************************)
C22_GatedEditsSpaced ==
    \A h \in Handlers :
        skew = 0 =>
            \A i \in 2..Len(edits[h]) :
                edits[h][i].kind = "gated" =>
                    edits[h][i].at - edits[h][i - 1].at >= SLACK_UPDATE_INTERVAL

(***************************************************************************)
(* C23.  While text streams in, no edit is issued before both the           *)
(* accumulated buffer has reached 40 characters and 1.5 seconds have       *)
(* passed since streaming started.  Stated for the first completion round  *)
(* of an event and the runs in which the wall clock is never set.          *)
(* (SpecStream)                                                            *)
(***************************************************************************)
\* The step issues a gated edit of the placeholder of h.
IssuesGatedEdit(h) ==
    /\ pc[h] = "call"
    /\ Len(edits'[h]) = Len(edits[h]) + 1
    /\ edits'[h][Len(edits'[h])].kind = "gated"

C23_Step ==
    \A h \in Handlers :
        (IssuesGatedEdit(h) /\ calls[h] = 0 /\ skew = 0) =>
            /\ len(accumulated_text'[h]) >= 40
            /\ elapsed' - stream_opened[h] >= SLACK_UPDATE_INTERVAL

C23_NoEditBeforeLengthAndInterval == [][C23_Step]_vars

(***************************************************************************)
(* C24.  The first edit of the placeholder in an event is never issued     *)
(* while the accumulated buffer holds fewer than 40 characters, so the     *)
(* first visible update is never a single truncated word.                  *)
(*                                                                         *)
(* As amended: the first gated (non-final) edit of the placeholder in an   *)
(* event is never issued while the accumulated buffer holds fewer than 40  *)
(* characters, and neither is any gated edit issued before an edit of the  *)
(* event has succeeded.  (SpecStream)                                      *)
(***************************************************************************)
\* The step issues the first chat_update on the placeholder of h.
IssuesFirstEdit(h) ==
    /\ pc[h] = "call"
    /\ edits[h] = <<>>
    /\ Len(edits'[h]) = 1

\* The claim as it stands: the first edit, gated or final.
C24_FirstEditStep ==
    \A h \in Handlers : IssuesFirstEdit(h) => len(accumulated_text'[h]) >= 40

C24_FirstEditHasFortyChars == [][C24_FirstEditStep]_vars

\* The claim as amended.
C24_Step ==
    \A h \in Handlers :
        (IssuesGatedEdit(h)
            /\ \/ \A i \in 1..Len(edits[h]) : edits[h][i].kind # "gated"
               \/ \A i \in 1..Len(edits[h]) : ~edits[h][i].ok) =>
            /\ len(accumulated_text'[h]) >= 40
            /\ len(strip(accumulated_text'[h])) >= 40

C24_FirstGatedEditHasFortyChars == [][C24_Step]_vars

\* The first edit of an event has been issued, a gated one, on a buffer of
\* exactly 40 characters: a word of 10, a blank, a word of 29.
C24_Witness ==
    \E h \in Handlers :
        /\ pc[h] = "call"
        /\ Len(edits[h]) = 1
        /\ edits[h][1].kind = "gated"
        /\ accumulated_text[h] = <<"w10", " ", "w29">>
        /\ len(accumulated_text[h]) = 40

(***************************************************************************)
(* C25.  On reaching TERMINAL in the streaming variant exactly one final    *)
(* edit is issued, carrying the complete final text (as format_for_slack   *)
(* renders it), whatever the time since the last edit and whatever the     *)
(* length of the buffer.  (SpecStream)                                     *)
(***************************************************************************)
NumFinal(es) == Cardinality({i \in 1..Len(es) : es[i].kind = "final"})

\* The step in which the streaming loop of h gets a response that is not
\* tool_use and returns.
StreamTerminalStep(h) == Streams(h) /\ pc[h] = "call" /\ pc'[h] = "save"

C25_Step ==
    \A h \in Handlers :
        /\ StreamTerminalStep(h) =>
              /\ Len(edits'[h]) = Len(edits[h]) + 1
              /\ SubSeq(edits'[h], 1, Len(edits[h])) = edits[h]
              /\ edits'[h][Len(edits'[h])].kind = "final"
              /\ edits'[h][Len(edits'[h])].text =
                     format_for_slack(final_text(response'[h].content))
              /\ final_text(response'[h].content) = accumulated_text[h]
        /\ (~StreamTerminalStep(h) /\ pc'[h] # "idle") =>
              NumFinal(edits'[h]) = NumFinal(edits[h])

C25_OneFinalEdit == [][C25_Step]_vars

\* The loop has returned; its final edit was issued half a second after a
\* gated edit, with a text the gated edit did not carry.
C25_Witness ==
    \E h \in Handlers :
        /\ pc[h] = "save"
        /\ Len(edits[h]) = 2
        /\ edits[h][1].kind = "gated"
        /\ edits[h][2].kind = "final"
        /\ edits[h][2].at - edits[h][1].at < SLACK_UPDATE_INTERVAL
        /\ edits[h][2].text # edits[h][1].text

(***************************************************************************)
(* C26.  When a streaming event reaches TERMINAL, the text the placeholder *)
(* shows at the end of the event is the complete final answer (as          *)
(* format_for_slack renders it), even if gated edits before were skipped   *)
(* or failed.  (SpecStream)                                                *)
(***************************************************************************)
\* The streaming loop of h has returned and the handler has not.
StreamReturned(h) ==
    /\ Streams(h)
    /\ pc[h] \in {"save", "sweep", "sweep_del"}
    /\ reply[h] # NoReply

C26_PlaceholderShowsFinalAnswer ==
    \A h \in Handlers :
        StreamReturned(h) =>
            placeholder[h] = format_for_slack(final_text(response[h].content))

(***************************************************************************)
(* C27.  A failing gated edit is swallowed: streaming continues, the Agent *)
(* Loop is not aborted, and the next edit attempt is made the next time    *)
(* the interval gate is satisfied.  (SpecStream)                           *)
(*                                                                         *)
(* As it stands the last part fails: the gated edit that failed left       *)
(* first_update True, so in the round after a tool call the text starts    *)
(* again from empty and the length gate holds the attempt back although    *)
(* the interval gate is satisfied.  Amended: the next gated attempt is     *)
(* made at the next fragment where the interval gate is satisfied and the  *)
(* text of the round has the length the length gate asks for.              *)
(***************************************************************************)
\* The step hands one fragment of the stream to the loop of h.
FragmentStep(h) ==
    /\ pc[h] = "call"
    /\ fragments' = fragments + 1
    /\ accumulated_text'[h] # accumulated_text[h]

\* The last edit attempted for the event of h was a gated edit that failed.
LastGatedEditFailed(h) ==
    /\ edits[h] # <<>>
    /\ edits[h][Len(edits[h])].kind = "gated"
    /\ ~edits[h][Len(edits[h])].ok

\* now - last_update_time >= SLACK_UPDATE_INTERVAL at the fragment of the step.
IntervalGateSatisfied(h) ==
    time_time(elapsed', skew) - last_update_time[h] >= SLACK_UPDATE_INTERVAL

\* len(accumulated_text.strip()) >= min_length at the fragment of the step.
LengthGateSatisfied(h) ==
    len(strip(accumulated_text'[h])) >= (IF first_update[h] THEN 40 ELSE 0)

\* A gated edit that fails leaves the loop where it was, with no exception,
\* and restarts the interval at the time of the attempt.
C27_Swallowed ==
    \A h \in Handlers :
        (IssuesGatedEdit(h) /\ ~edits'[h][Len(edits'[h])].ok) =>
            /\ pc'[h] = "call"
            /\ exc'[h] = exc[h]
            /\ placeholder'[h] = placeholder[h]
            /\ last_update_time'[h] = time_time(elapsed', skew)

\* The claim as it stands.
C27_OriginalStep ==
    /\ C27_Swallowed
    /\ \A h \in Handlers :
           (FragmentStep(h) /\ LastGatedEditFailed(h) /\ IntervalGateSatisfied(h))
               => IssuesGatedEdit(h)

C27_Step ==
    /\ C27_Swallowed
    /\ \A h \in Handlers :
           (FragmentStep(h) /\ LastGatedEditFailed(h)) =>
               (IssuesGatedEdit(h) <=>
                    (IntervalGateSatisfied(h) /\ LengthGateSatisfied(h)))

RoundEdits(h) ==
    SelectSeq(edits[h], LAMBDA e : e.kind = "gated" /\ e.call = calls[h] + 1)

\* The interval gate as elapsed time decides it: open until the round has
\* attempted a gated edit, and then SLACK_UPDATE_INTERVAL after the last one.
MonotonicGateSatisfied(h) ==
    \/ RoundEdits(h) = <<>>
    \/ elapsed' - RoundEdits(h)[Len(RoundEdits(h))].at >= SLACK_UPDATE_INTERVAL

C28_Step ==
    \A h \in Handlers :
        FragmentStep(h) =>
            (IssuesGatedEdit(h) <=>
                 (MonotonicGateSatisfied(h) /\ LengthGateSatisfied(h)))

C28_EditsIndependentOfWallClock == [][C28_Step]_vars

(***************************************************************************)
(* C29.  Every handled event is followed by one sweep of the Session       *)
(* Store, on the success path and on the completion-failure path alike.    *)
(* (SpecLoop)                                                              *)
(***************************************************************************)
\* The handler of h returns in this step, with no exception leaving it from
\* a Slack call or from the sweep itself.
HandlerReturns(h) ==
    /\ pc[h] # "idle"
    /\ pc'[h] = "idle"
    /\ exc'[h].origin \notin {"say", "cleanup_stale_conversations"}

C29_Step ==
    \A h \in Handlers : HandlerReturns(h) => pc[h] = "sweep_del"

C29_EveryEventSwept == [][C29_Step]_vars

(***************************************************************************)
(* C30.  process_tool_call with a tool name outside the registered set     *)
(* returns a structured failure (success false with an error) and invokes  *)
(* no query-backend, persistence or calendar operation.  Stated of the     *)
(* step that dispatches the call.  (SpecLoop)                              *)
(***************************************************************************)
\* The names process_tool_call has a branch for.
RegisteredTools == {"execute_sql", "insert_time_off"}

\* The block the for loop of h is at.
CurrentBlock(h) == response[h].content[block_idx[h]]

C30_Step ==
    \A h \in Handlers :
        (Dispatching(h) /\ CurrentBlock(h).name \notin RegisteredTools) =>
            /\ Len(tool_results'[h]) = Len(tool_results[h]) + 1
            /\ tool_results'[h][Len(tool_results'[h])].tool_use_id = CurrentBlock(h).id
            /\ NewResult(h) = [success |-> FALSE, error |-> "Unknown tool"]
            /\ last_backend'[h] = "none"
            /\ time_off' = time_off
            /\ calendar' = calendar
            /\ pc'[h] = pc[h]
            /\ exc'[h] = exc[h]

C30_UnknownToolRejected == [][C30_Step]_vars

\* A call of a tool outside the registered set has been dispatched: its result
\* is the structured failure, and nothing was written.
C30_Witness ==
    \E h \in Handlers :
        /\ pc[h] = "dispatch"
        /\ dispatches[h] = 1
        /\ response[h].content[1].name \notin RegisteredTools
        /\ Len(tool_results[h]) = 1
        /\ tool_results[h][1].content = [success |-> FALSE, error |-> "Unknown tool"]
        /\ last_backend[h] = "none"
        /\ time_off = 0
        /\ calendar = 0

(***************************************************************************)
(* C31.  The sequence stored under a key changes only when save_history is *)
(* called for that key or when the entry is evicted (by the lazy expiry of *)
(* get_history or by the sweep); get_history on a live key and the appends *)
(* of the agent loop to the sequence it received leave the stored sequence *)
(* and its last_activity unchanged.  (SpecTime)                            *)
(***************************************************************************)
\* The step changes what the store holds under key k.
StoreChangedAt(k) ==
    \/ (k \in DOMAIN conversation_store) # (k \in DOMAIN conversation_store')
    \/ /\ k \in DOMAIN conversation_store
       /\ k \in DOMAIN conversation_store'
       /\ conversation_store'[k] # conversation_store[k]

\* The step is the call of save_history for key k by handler h.
SavesKey(h, k) == pc[h] = "save" /\ conv_key[h] = k /\ pc'[h] # "save"

\* The step is a del statement of get_history or of the sweep on key k.
EvictsKey(h, k) ==
    /\ k \in DOMAIN conversation_store
    /\ k \notin DOMAIN conversation_store'
    /\ \/ pc[h] = "get_del" /\ conv_key[h] = k
       \/ pc[h] = "sweep_del" /\ k \in stale[h]

\* get_history returns the turns of a live entry to handler h in this step.
GetsLive(h) == pc[h] = "get_entry" /\ pc'[h] = "prep"

\* The agent loop of h appends to its local messages in this step.
LoopAppends(h) == Len(messages'[h]) > Len(messages[h])

C31_Step ==
    /\ \A k \in DOMAIN conversation_store \cup DOMAIN conversation_store' :
           StoreChangedAt(k) => \E h \in Handlers : SavesKey(h, k) \/ EvictsKey(h, k)
    /\ \A h \in Handlers :
           (GetsLive(h) \/ LoopAppends(h)) => conversation_store' = conversation_store

C31_StoreChangesOnlyBySaveOrEviction == [][C31_Step]_vars

\* A handler got the turns of a live entry, minutes after it was saved, and
\* has appended to them; the entry is as it was.
C31_Witness ==
    \E h \in Handlers :
        /\ pc[h] \in {"call", "dispatch"}
        /\ got[h] # <<>>
        /\ Len(messages[h]) > Len(got[h][1].messages)
        /\ SubSeq(messages[h], 1, Len(got[h][1].messages)) = got[h][1].messages
        /\ conv_key[h] \in DOMAIN conversation_store
        /\ conversation_store[conv_key[h]] = got[h][1]
        /\ now > got[h][1].last_activity

(***************************************************************************)
(* C32.  Within one handler the steps are strictly sequential: at most one *)
(* completion call or tool dispatch is in progress at any time, the tool   *)
(* calls of a response are dispatched one after another in block order,    *)
(* and the next completion call starts only after the assistant turn and   *)
(* the tool-result turn of the current round have been appended.           *)
(* (SpecLoop)                                                              *)
(***************************************************************************)
\* The identifiers of the tool_use blocks of a content, in block order.
RECURSIVE ToolUseIds(_)
ToolUseIds(content) ==
    IF content = <<>> THEN <<>>
    ELSE IF Head(content).type = "tool_use"
    THEN <<Head(content).id>> \o ToolUseIds(Tail(content))
    ELSE ToolUseIds(Tail(content))

\* The identifiers the blocks of a list of tool results answer, in order.
ResultIds(results) == [i \in 1..Len(results) |-> results[i].tool_use_id]

IsPrefix(s, t) == Len(s) <= Len(t) /\ SubSeq(t, 1, Len(s)) = s

\* The step is a call of the completion service by handler h.
Calling(h) == calls'[h] = calls[h] + 1

C32_Step ==
    \A h \in Handlers :
        \* one operation at a time
        /\ ~(Calling(h) /\ Dispatching(h))
        /\ calls'[h] <= calls[h] + 1
        /\ dispatches'[h] <= dispatches[h] + 1
        \* the dispatches of a response: one more result, in block order
        /\ Dispatching(h) =>
              /\ response[h].stop_reason = "tool_use"
              /\ response'[h] = response[h]
              /\ IsPrefix(ResultIds(tool_results[h]), ToolUseIds(response[h].content))
              /\ pc'[h] = "dispatch" =>
                    /\ Len(tool_results'[h]) = Len(tool_results[h]) + 1
                    /\ IsPrefix(ResultIds(tool_results'[h]),
                                ToolUseIds(response[h].content))
        \* no call while a response has blocks left; after a round, both turns
        \* of the round are the last two messages
        /\ Calling(h) =>
              /\ response[h] = NoResponse
              /\ tool_results[h] = <<>>
              /\ rounds[h] > 0 =>
                    LET n == Len(messages[h]) IN
                    /\ n >= 3
                    /\ HasToolCalls(messages[h][n - 1])
                    /\ IsToolResultTurn(messages[h][n])
                    /\ ResultIds(messages[h][n].content.blocks) =
                           ToolUseIds(messages[h][n - 1].content.blocks)

C32_StepsSequential == [][C32_Step]_vars

\* A response with two tool calls around a text has been dispatched and its
\* round closed: the results are in the order of the calls, and the next
\* completion call has not been made.
C32_Witness ==
    \E h \in Handlers :
        /\ pc[h] = "call"
        /\ rounds[h] = 1
        /\ calls[h] = 1
        /\ dispatches[h] = 2
        /\ LET n == Len(messages[h]) IN
           /\ Len(messages[h][n - 1].content.blocks) = 3
           /\ ResultIds(messages[h][n].content.blocks) = <<1, 2>>
           /\ ToolUseIds(messages[h][n - 1].content.blocks) = <<1, 2>>

(***************************************************************************)
(* C33.  In a streaming event exactly one placeholder message is posted,   *)
(* before the first completion call; every later edit, in every tool-use   *)
(* round, targets that same message, and the accumulation buffer restarts  *)
(* empty at the start of each completion round.  (SpecStream)              *)
(***************************************************************************)
\* The step posts a placeholder for the event of h.
PostsPlaceholder(h) == Len(posted'[h]) > Len(posted[h])

\* The step issues a chat_update for the event of h.
IssuesEdit(h) == Len(edits'[h]) > Len(edits[h])

\* The step brings the loop of h to the start of a completion round.
StartsRound(h) == pc[h] # "call" /\ pc'[h] = "call"

C33_Step ==
    \A h \in Handlers :
        Streams(h) =>
            /\ PostsPlaceholder(h) =>
                  /\ posted[h] = <<>>
                  /\ Len(posted'[h]) = 1
                  /\ calls[h] = 0
                  /\ placeholder_ts'[h] = posted'[h][1]
            /\ Calling(h) =>
                  /\ Len(posted[h]) = 1
                  /\ posted'[h] = posted[h]
            /\ IssuesEdit(h) =>
                  /\ Len(posted[h]) = 1
                  /\ posted'[h] = posted[h]
                  /\ edits'[h][Len(edits'[h])].ts = posted[h][1]
            /\ StartsRound(h) =>
                  /\ accumulated_text'[h] = <<>>
                  /\ Len(posted'[h]) = 1
            /\ (FragmentStep(h) /\ accumulated_text[h] = <<>>) =>
                  format_for_slack(accumulated_text'[h]) \in
                      {format_for_slack(text) : text \in FragmentTexts}

C33_OnePlaceholderEditedThroughout == [][C33_Step]_vars

\* Edits were issued in two completion rounds of one event, all of them on
\* the one placeholder posted, and the second shows the text of its round only.
C33_Witness ==
    \E h \in Handlers :
        /\ Len(posted[h]) = 1
        /\ Len(edits[h]) = 2
        /\ edits[h][1].call = 1 /\ edits[h][1].ok
        /\ edits[h][2].call = 2
        /\ edits[h][1].ts = posted[h][1]
        /\ edits[h][2].ts = posted[h][1]
        /\ edits[h][2].text \in {format_for_slack(text) : text \in FragmentTexts}

(***************************************************************************)
(* C34.  The agent loop only appends: the history it returns has the       *)
(* history it was given as a prefix, and the sequence that save_history    *)
(* stores is a contiguous suffix of its input, so turns retained across    *)
(* events always keep their relative order.  (SpecSeq)                     *)
(***************************************************************************)
\* The history get_history gave to the handler h for its event.
Given(h) == IF got[h] = <<>> THEN <<>> ELSE got[h][1].messages

\* The loop function of h is running or has returned, and h has not.
InOrAfterLoop(h) == pc[h] \in {"call", "dispatch", "save", "sweep", "sweep_del"}

C34_Step ==
    \A h \in Handlers :
        \* the loop only appends to what it was given
        /\ (InOrAfterLoop(h) /\ InOrAfterLoop(h)') =>
              /\ IsPrefix(Given(h), messages[h])
              /\ IsPrefix(messages[h], messages'[h])
        \* save stores a contiguous suffix of its input: the turns of the old
        \* entry it retains are the last ones, followed by the appended ones
        /\ \A k \in DOMAIN conversation_store' :
              SavesKey(h, k) =>
                  LET stored == conversation_store'[k].messages
                      added == Len(messages[h]) - Len(Given(h))
                      kept == Len(stored) - added
                  IN /\ IsSuffix(stored, messages[h])
                     /\ stored # <<>>
                     /\ kept >= 0 =>
                           /\ IsSuffix(SubSeq(stored, 1, kept), Given(h))
                           /\ SubSeq(stored, kept + 1, Len(stored)) =
                                  SubSeq(messages[h], Len(Given(h)) + 1, Len(messages[h]))

C34_LoopAppendsSaveKeepsSuffix == [][C34_Step]_vars

\* A history of MAX_TURNS exchanges was given, the loop appended one more with
\* a tool round, and save_history cut the oldest exchange off.
C34_Witness ==
    \E h \in Handlers :
        /\ pc[h] = "sweep"
        /\ NumExchanges(Given(h)) = MAX_TURNS
        /\ IsPrefix(Given(h), messages[h])
        /\ Len(messages[h]) >= Len(Given(h)) + 4
        /\ Len(Stored(conv_key[h])) < Len(messages[h])
        /\ IsSuffix(Stored(conv_key[h]), messages[h])
        /\ NumExchanges(Stored(conv_key[h])) = MAX_TURNS

(***************************************************************************)
(* C35.  Two events get the same session key exactly when they come from   *)
(* the same user and are either both direct messages or both non-DM events *)
(* in the same channel; a session key is never shared between two          *)
(* different users or between a direct message and a channel.  (SpecKey)   *)
(***************************************************************************)
IsDirect(ev) == ev.channel_type = "im"

\* The two events belong to one session as the claim defines it.
SameSession(e1, e2) ==
    /\ e1.user = e2.user
    /\ \/ IsDirect(e1) /\ IsDirect(e2)
       \/ ~IsDirect(e1) /\ ~IsDirect(e2) /\ e1.channel = e2.channel

\* The slack_id of the human's messages in a sequence of turns.
TurnUsers(s) == {s[i].content.text.slack_id : i \in {j \in 1..Len(s) : IsUserTurn(s[j])}}

StoreOperations == {"get_history", "cleanup_stale_conversations"}

C36_StoreOperationsNeverFail ==
    \A h \in Handlers : exc[h].origin \notin StoreOperations

(***************************************************************************)
(* C37.  The sweep is invisible to readers: for every key and every time,  *)
(* get_history(key) returns the same sequence whether or not a sweep was   *)
(* executed just before it, because every entry the sweep removes (idle    *)
(* for more than 2 x HISTORY_TTL_MINUTES) is one that get_history would    *)
(* already treat as expired.  With one handler running.  (SpecTime)        *)
(***************************************************************************)
\* The sweep of handler h has deleted all it had listed.
SweepDone(h) == pc[h] = "sweep_del" /\ stale[h] = {}

C37_SweepInvisibleToGet ==
    \A h \in Handlers :
        SweepDone(h) =>
            \A k \in DOMAIN scan[h].store, t \in scan[h].now..MaxNow :
                get_history(conversation_store, k, t) = get_history(scan[h].store, k, t)

\* A sweep has removed an entry and left another one that get_history still
\* returns the turns of.
C37_Witness ==
    \E h \in Handlers :
        /\ SweepDone(h)
        /\ \E k1, k2 \in DOMAIN scan[h].store :
              /\ k1 \notin DOMAIN conversation_store
              /\ k2 \in DOMAIN conversation_store
              /\ get_history(conversation_store, k2, now) # <<>>

(***************************************************************************)
(* C38.  Given the same prior history, the same user message and the same  *)
(* sequence of completion responses and tool results, the blocking variant *)
(* and the streaming variant of the agent loop perform the same tool       *)
(* dispatches in the same order and return identical turn histories.  The  *)
(* two loop functions are applied to what the run of a handler consumed,   *)
(* and the one the handler ran is held to what the run did.  (SpecLoop)    *)
(***************************************************************************)
\* The loop function of h has received the response that ends it.
LoopEnded(h) ==
    /\ fed[h] # <<>>
    /\ fed[h][Len(fed[h])].response.stop_reason # "tool_use"
    /\ pc[h] \in {"save", "say", "sweep", "sweep_del"}

\* The loop function of h was left by an exception of process_tool_call.
LoopLeftInTool(h) ==
    /\ pc[h] = "except"
    /\ exc[h].origin = "process_tool_call"

\* The calls of process_tool_call the run of h made, in order.
DispatchLog(items) ==
    LET Calls(item) == [i \in 1..Len(item.dispatched) |->
                           [name |-> item.dispatched[i].name,
                            input |-> item.dispatched[i].input]]
        RECURSIVE Flat(_)
        Flat(its) == IF its = <<>> THEN <<>> ELSE Calls(Head(its)) \o Flat(Tail(its))
    IN Flat(items)

C38_VariantsAgree ==
    \A h \in Handlers :
        (LoopEnded(h) \/ LoopLeftInTool(h)) =>
            LET a == chat_with_claude(event[h], Given(h), fed[h])
                b == chat_with_claude_streaming(event[h], Given(h), fed[h])
                own == IF Streams(h) THEN b ELSE a
            IN /\ a.dispatched = b.dispatched
               /\ a.raised = b.raised
               /\ a.messages = b.messages
               /\ program = "yuri-bot" =>
                     /\ own.dispatched = DispatchLog(fed[h])
                     /\ own.raised = LoopLeftInTool(h)
                     /\ LoopEnded(h) => own.messages = messages[h]

\* A streamed run that was given a history has ended after two rounds of one
\* dispatch each.
C38_Witness ==
    \E h \in Handlers :
          /\ program = "yuri-bot" /\ LoopEnded(h) /\ Streams(h)
          /\ Given(h) # <<>>
          /\ Len(fed[h]) = 3
          /\ Len(DispatchLog(fed[h])) = 2

(***************************************************************************)
(* C39.  In every reachable state every stored turn sequence is non-empty, *)
(* starts with a user turn, alternates strictly between user-role turns (a *)
(* user turn or a tool-result turn) and assistant turns, and ends with an  *)
(* assistant turn that requests no tool call.  (SpecSeq)                   *)
(***************************************************************************)
IsUserRoleTurn(m) == IsUserTurn(m) \/ IsToolResultTurn(m)

IsAssistantTurn(m) == m.role = "assistant" /\ m.content.kind = "list"

WellFormedSequence(s) ==
    /\ s # <<>>
    /\ IsUserTurn(s[1])
    /\ \A i \in 1..Len(s) : IsUserRoleTurn(s[i]) \/ IsAssistantTurn(s[i])
    /\ \A i \in 1..(Len(s) - 1) : IsUserRoleTurn(s[i]) <=> IsAssistantTurn(s[i + 1])
    /\ IsAssistantTurn(s[Len(s)])
    /\ ~HasToolCalls(s[Len(s)])

C39_StoredSequencesWellFormed ==
    \A k \in DOMAIN conversation_store : WellFormedSequence(Stored(k))

\* A stored sequence that save_history cut, of MAX_TURNS exchanges, with a
\* tool-result turn in it.
C39_Witness ==
    \E k \in DOMAIN conversation_store :
        /\ k \in DOMAIN last_saved
        /\ Len(Stored(k)) < Len(last_saved[k].messages)
        /\ NumExchanges(Stored(k)) = MAX_TURNS
        /\ \E i \in 1..Len(Stored(k)) : IsToolResultTurn(Stored(k)[i])

(***************************************************************************)
(* C40.  In the dispatch of insert_time_off the calendar-event creation is *)
(* attempted only after the persistence write has succeeded; when the      *)
(* persistence write fails, no calendar event is created.  Stated of the   *)
(* step that dispatches the call.  (SpecLoop)                              *)
(***************************************************************************)
\* The outcome of process_tool_call in the dispatch of the step.
DispatchOutcome(h) ==
    LET item == fed'[h][Len(fed'[h])] IN item.dispatched[Len(item.dispatched)].out

C40_Step ==
    \A h \in Handlers :
        (Dispatching(h) /\ CurrentBlock(h).name = "insert_time_off") =>
            /\ DispatchOutcome(h).cal_called =>
                  /\ DispatchOutcome(h).inserted
                  /\ time_off' = time_off + 1
            /\ calendar' # calendar => DispatchOutcome(h).cal_called
            /\ last_backend'[h] = "write_error" =>
                  /\ ~DispatchOutcome(h).cal_called
                  /\ calendar' = calendar
                  /\ time_off' = time_off

C40_CalendarOnlyAfterWrite == [][C40_Step]_vars

\* Both cases have happened: a dispatch of insert_time_off whose write failed,
\* with no row and no calendar event, and then one whose write succeeded and
\* whose calendar event was created.
C40_Witness ==
    \E h \in Handlers :
        /\ Len(fed[h]) = 2
        /\ fed[h][1].response.content[1].name = "insert_time_off"
        /\ fed[h][1].dispatched # <<>>
        /\ ~fed[h][1].dispatched[1].out.inserted
        /\ ~fed[h][1].dispatched[1].out.cal_called
        /\ fed[h][1].dispatched[1].out.result.error = "Database error"
        /\ fed[h][2].dispatched # <<>>
        /\ fed[h][2].dispatched[1].out.inserted
        /\ fed[h][2].dispatched[1].out.cal_called
        /\ fed[h][2].dispatched[1].out.cal_created
        /\ time_off = 1
        /\ calendar = 1

====
